---- MODULE Spec2Model ----
(***************************************************************************)
(* A model of MetronomeEngine (src/app/lib/metronome.ts): the lookahead    *)
(* beat scheduler, the count-in / performance / loop transport, the        *)
(* validated settings and the event bus.                                   *)
(*                                                                         *)
(* Representation.  Times are integers in milliseconds (the source keeps   *)
(* seconds as floats): the lookahead 0.025 s is 25 and the beat interval   *)
(* 60.0 / bpm s is 60000 \div bpm, which is exact for every bpm the model  *)
(* feeds to the engine (they all divide 60000).  Volumes are integers in   *)
(* hundredths (0.7 is 70), so the domain [0, 1] is 0..100.  Booleans       *)
(* passed as arguments are logged as 0 / 1.                                *)
(*                                                                         *)
(* start() is asynchronous: it runs to completion within the call when the *)
(* audio context is initialised and running, and otherwise suspends at an  *)
(* await and continues in a later step.  Spec, SpecSettings, SpecBus,      *)
(* SpecReads and SpecLive begin with the context acquired by the           *)
(* constructor; SpecAudio begins with any outcome of the constructor and   *)
(* lets the audio backend come and go.  A context is suspended only when   *)
(* it is created so.  SpecLive is the engine started once and left to      *)
(* itself, with the fairness of the timer queue and of the clock.          *)
(***************************************************************************)
EXTENDS Integers, Sequences, FiniteSets, TLC

VARIABLES
    settings,               \* this.settings (metronome.ts:43-57)
    isPlaying,              \* this.isPlaying
    nextBeatTime,           \* this.nextBeatTime
    currentBeat,            \* this.currentBeat
    currentMeasure,         \* this.currentMeasure
    timerId,                \* this.timerId: "null", "live" (names a pending
                            \* timeout) or "stale" (names one that has fired)
    isCountingIn,           \* this.isCountingIn
    countInBeatsRemaining,  \* this.countInBeatsRemaining
    pendingTimers,          \* number of setTimeout callbacks not yet run
    currentTime,            \* audioContext.currentTime
    listeners,              \* eventListeners.get('beat'): the handlers
                            \* subscribed, in the order of the array
    isInitialized,          \* this.isInitialized
    audioContext,           \* this.audioContext: 0 for null, else the index
                            \* in contexts of the context it refers to
    contexts,               \* the state of every AudioContext constructed:
                            \* "suspended" or "running"
    tasks,                  \* the start() and initializeAudioContext() calls
                            \* suspended at an await
    backend,                \* what new AudioContext() does at present:
                            \* "unavailable" (throws), "suspended", "running"
    held,                   \* the values getSettings() returned to the host
    trace                   \* everything an observer has seen: the calls made,
                            \* the errors thrown, the events and the clicks

vars == <<settings, isPlaying, nextBeatTime, currentBeat, currentMeasure,
          timerId, isCountingIn, countInBeatsRemaining, pendingTimers,
          currentTime, listeners, isInitialized, audioContext, contexts,
          tasks, backend, held, trace>>

-----------------------------------------------------------------------------
(* Bounds of the model. *)

\* API calls made in one behaviour of Spec.
MaxCalls == 3

\* Setter and jumpToMeasure calls among them.
MaxEdits == 1

\* Setter and jumpToMeasure calls made in one behaviour of SpecSettings.
MaxSettingsCalls == 2

\* API calls made in one behaviour of SpecBus.
MaxBusCalls == 3

\* start() and stop() calls made in one behaviour of SpecAudio.
MaxAudioCalls == 3

\* API calls made in one behaviour of SpecReads.
MaxReadsCalls == 4

\* Beat intervals (at the fastest tempo) the clock of SpecLive runs for.
MaxLiveTicks == 10

\* Readings of the audio clock.  Beats of a session started at 0 with bpm 300
\* fall on the multiples of 200: a pass at 190 schedules a beat ahead of time,
\* one at 200 on time, and a jump over 200 or more makes a pass late.
ClockPoints == {0, 190, 200, 400, 600}

-----------------------------------------------------------------------------
(* Program constants. *)

Lookahead == 25
MsPerMinute == 60000

MinBpm == 30
MaxBpm == 300
MinNumerator == 1
MaxNumerator == 12
Denominators == {1, 2, 4, 8, 16}
MinVolume == 0
MaxVolume == 100
MinCountInBeats == 1
MaxCountInBeats == 8

DefaultSettings ==
    [bpm |-> 120, timeSignatureNumerator |-> 4, timeSignatureDenominator |-> 4,
     volume |-> 70, isPlaying |-> FALSE, countInEnabled |-> TRUE,
     countInBeats |-> 4, countInVolume |-> 50, loopEnabled |-> FALSE,
     loopStartMeasure |-> 1, loopEndMeasure |-> 4, currentLoop |-> 0,
     targetLoops |-> 0]

\* Faulty variant, for sensitivity of the properties: the interval of half a beat.
BeatIntervalHalved(bpm) == MsPerMinute \div (2 * bpm)

\* const beatInterval = 60.0 / this.settings.bpm
BeatInterval(bpm) == MsPerMinute \div bpm

-----------------------------------------------------------------------------
(* The trace. *)

\* cfg is the settings as the observer read them when the entry was made.
\* subs is filled in for an event: the handlers subscribed to its type when
\* its dispatch begins.  ref says that the data of the event is the engine's
\* settings object itself, which the observer may keep.
Entry(type, cfg) ==
    [type |-> type, op |-> "", a |-> 0, b |-> 0, beat |-> 0, measure |-> 0,
     isDownbeat |-> FALSE, timestamp |-> 0, isCountIn |-> FALSE, cfg |-> cfg,
     subs |-> <<>>, ref |-> FALSE, running |-> FALSE]

CallEntry(op, a, b, cfg) == [Entry("call", cfg) EXCEPT !.op = op, !.a = a, !.b = b]

Bit(x) == IF x THEN 1 ELSE 0

Max(S) == CHOOSE x \in S : \A y \in S : y <= x

Min(S) == CHOOSE x \in S : \A y \in S : x <= y

-----------------------------------------------------------------------------
(* The engine as one value, for the methods that run in sequence. *)

Eng ==
    [settings |-> settings, isPlaying |-> isPlaying, nextBeatTime |-> nextBeatTime,
     currentBeat |-> currentBeat, currentMeasure |-> currentMeasure,
     timerId |-> timerId, isCountingIn |-> isCountingIn,
     countInBeatsRemaining |-> countInBeatsRemaining,
     pendingTimers |-> pendingTimers, listeners |-> listeners,
     isInitialized |-> isInitialized, audioContext |-> audioContext,
     contexts |-> contexts, tasks |-> tasks, currentTime |-> currentTime,
     trace |-> trace]

\* The engine r is the next state.
CommitFields(r) ==
    /\ settings' = r.settings
    /\ isPlaying' = r.isPlaying
    /\ nextBeatTime' = r.nextBeatTime
    /\ currentBeat' = r.currentBeat
    /\ currentMeasure' = r.currentMeasure
    /\ timerId' = r.timerId
    /\ isCountingIn' = r.isCountingIn
    /\ countInBeatsRemaining' = r.countInBeatsRemaining
    /\ pendingTimers' = r.pendingTimers
    /\ listeners' = r.listeners
    /\ isInitialized' = r.isInitialized
    /\ audioContext' = r.audioContext
    /\ contexts' = r.contexts
    /\ tasks' = r.tasks
    /\ currentTime' = r.currentTime
    /\ trace' = r.trace

\* The engine e, computed once, is the next state.
Commit(e) == \E r \in {e} : CommitFields(r)

\* running is what isRunning() returns at the moment of the entry.
Log(e, entry) ==
    [e EXCEPT !.trace = Append(@, [entry EXCEPT !.running = e.isPlaying])]

RECURSIVE emitEvent(_, _)
RECURSIVE stop(_)
RECURSIVE forEachListener(_, _, _)
RECURSIVE beatLoop(_, _)

\* clearTimeout(this.timerId); this.timerId = null
clearTimer(e) ==
    IF e.timerId = "null" THEN e
    ELSE [e EXCEPT !.pendingTimers = IF e.timerId = "live" THEN @ - 1 ELSE @,
                   !.timerId = "null"]

\* Faulty variant, for sensitivity of the properties: no stop event.
stopWithoutEvent(e) ==
    clearTimer([e EXCEPT !.isPlaying = FALSE, !.settings.isPlaying = FALSE])

\* Faulty variant, for sensitivity of the properties: the flag of the
\* settings object is left as it was.
stopUnmirrored(e) ==
    emitEvent(clearTimer([e EXCEPT !.isPlaying = FALSE]),
              [Entry("stop", e.settings) EXCEPT !.ref = TRUE])

\* this.emitEvent(type, this.settings): the data is the settings object.
emitSettings(e, type) ==
    emitEvent(e, [Entry(type, e.settings) EXCEPT !.ref = TRUE])

\* this.emitEvent(type): no data.
emitBare(e, type) == emitEvent(e, Entry(type, e.settings))

\* stop(): metronome.ts:267-277
stop(e) ==
    emitSettings(
        clearTimer([e EXCEPT !.isPlaying = FALSE, !.settings.isPlaying = FALSE]),
        "stop")

\* this.audioContext.close(); this.audioContext = null: metronome.ts:396-399
closeAudioContext(e) ==
    IF e.audioContext = 0 THEN e
    ELSE [e EXCEPT !.contexts[e.audioContext] = "closed", !.audioContext = 0]

\* destroy(): metronome.ts:393-403
destroy(e) ==
    [closeAudioContext(stop(e)) EXCEPT !.listeners = <<>>,
                                       !.isInitialized = FALSE]

-----------------------------------------------------------------------------
(* The event bus.  The handlers are the host's; the model has these:        *)
(*   StopHandler   calls engine.stop()                                      *)
(*   PlainHandler  records that it ran                                      *)
(*   OnceHandler   records that it ran, then unsubscribes itself            *)
(*   RemoverHandler records that it ran, then unsubscribes PlainHandler     *)
(*   AdderHandler  records that it ran, then subscribes PlainHandler        *)
StopHandler == 0
PlainHandler == 1
OnceHandler == 2
RemoverHandler == 3
AdderHandler == 4

\* addEventListener('beat', listener): metronome.ts:213-218
addEventListener(e, listener) == [e EXCEPT !.listeners = Append(@, listener)]

\* listeners.indexOf(listener), 0 for -1
indexOf(seq, listener) ==
    IF \E k \in 1..Len(seq) : seq[k] = listener
    THEN Min({k \in 1..Len(seq) : seq[k] = listener})
    ELSE 0

\* listeners.splice(index, 1)
splice(seq, index) == SubSeq(seq, 1, index - 1) \o SubSeq(seq, index + 1, Len(seq))

\* removeEventListener('beat', listener): metronome.ts:220-228
removeEventListener(e, listener) ==
    LET index == indexOf(e.listeners, listener)
    IN  IF index > 0 THEN [e EXCEPT !.listeners = splice(@, index)] ELSE e

\* listener(event): what each handler of the host does when it is called.
invoke(e, listener) ==
    IF listener = StopHandler THEN stop(e)
    ELSE LET e1 == Log(e, [Entry("invoke", e.settings) EXCEPT !.a = listener])
         IN  CASE listener = OnceHandler -> removeEventListener(e1, OnceHandler)
               [] listener = RemoverHandler -> removeEventListener(e1, PlainHandler)
               [] listener = AdderHandler -> addEventListener(e1, PlainHandler)
               [] OTHER -> e1

\* listeners.forEach(listener => listener(event)): metronome.ts:210.  forEach
\* reads the length once, then visits the indices below it that the array
\* still has when it comes to them (k counts from 1 here).
forEachListener(e, k, len) ==
    IF k > len THEN e
    ELSE IF k > Len(e.listeners) THEN forEachListener(e, k + 1, len)
    ELSE forEachListener(invoke(e, e.listeners[k]), k + 1, len)

\* emitEvent(): metronome.ts:207-211.  The observer records the event, then the
\* listeners of the event's type run; the model keeps the list of 'beat'.
emitEvent(e, entry) ==
    IF entry.type = "beat"
    THEN forEachListener(Log(e, [entry EXCEPT !.subs = e.listeners]),
                         1, Len(e.listeners))
    ELSE Log(e, entry)

\* Faulty variant, for sensitivity of the properties: every click is played
\* at settings.volume, the count-in clicks too.
createClickSoundOneVolume(e, isDownbeat, when, isCountIn) ==
    IF e.audioContext = 0 THEN e
    ELSE Log(e, [Entry("click", e.settings) EXCEPT
                    !.isDownbeat = isDownbeat, !.timestamp = when,
                    !.isCountIn = isCountIn,
                    !.a = e.settings.volume,
                    !.b = IF isCountIn THEN (IF isDownbeat THEN 660 ELSE 330)
                          ELSE (IF isDownbeat THEN 880 ELSE 440)])

\* createClickSound(): metronome.ts:93-127.  The entry records the
\* oscillator started at `when`: its frequency in b, the gain it ramps to
\* in a.
createClickSound(e, isDownbeat, when, isCountIn) ==
    IF e.audioContext = 0 THEN e
    ELSE Log(e, [Entry("click", e.settings) EXCEPT
                    !.isDownbeat = isDownbeat, !.timestamp = when,
                    !.isCountIn = isCountIn,
                    !.a = IF isCountIn THEN e.settings.countInVolume
                          ELSE e.settings.volume,
                    !.b = IF isCountIn THEN (IF isDownbeat THEN 660 ELSE 330)
                          ELSE (IF isDownbeat THEN 880 ELSE 440)])

\* Faulty variant, for sensitivity of the properties: the beat index counts
\* from 0.
beatEventZeroBased(e, isDownbeat, isCountIn) ==
    [Entry("beat", e.settings) EXCEPT
        !.beat = e.currentBeat % e.settings.timeSignatureNumerator,
        !.measure = e.currentMeasure,
        !.isDownbeat = isDownbeat,
        !.timestamp = e.nextBeatTime,
        !.isCountIn = isCountIn]

\* The BeatInfo of metronome.ts:144-150 and 166-172
beatEvent(e, isDownbeat, isCountIn) ==
    [Entry("beat", e.settings) EXCEPT
        !.beat = (e.currentBeat % e.settings.timeSignatureNumerator) + 1,
        !.measure = e.currentMeasure,
        !.isDownbeat = isDownbeat,
        !.timestamp = e.nextBeatTime,
        !.isCountIn = isCountIn]

\* this.emitEvent('beat', {...}): metronome.ts:144-150 and 166-172
emitBeat(e, isDownbeat, isCountIn) ==
    emitEvent(e, beatEvent(e, isDownbeat, isCountIn))

\* The end of the count-in, metronome.ts:155-160, for the engine e that has
\* counted the beat down.
countInFinished(e) ==
    IF e.countInBeatsRemaining <= 0
    THEN emitBare([e EXCEPT !.isCountingIn = FALSE, !.currentBeat = 0,
                            !.currentMeasure = 1],
                  "countInEnd")
    ELSE e

\* metronome.ts:139-160
countInBeat(e, isDownbeat) ==
    countInFinished(
        [emitBeat(createClickSound(e, isDownbeat, e.nextBeatTime, TRUE),
                  isDownbeat, TRUE)
            EXCEPT !.countInBeatsRemaining = @ - 1])

\* metronome.ts:161-173
normalBeat(e, isDownbeat) ==
    emitBeat(createClickSound(e, isDownbeat, e.nextBeatTime, FALSE),
             isDownbeat, FALSE)

\* Faulty variant, for sensitivity of the properties: the tempo is the one read when the session started, not the one in
\* force now.
advanceBeatStaleTempo(e) ==
    LET starts == {i \in 1..Len(e.trace) :
                      e.trace[i].type = "call" /\ e.trace[i].op = "start"}
        last == CHOOSE i \in starts : \A k \in starts : k <= i
    IN  [e EXCEPT !.nextBeatTime = @ + BeatInterval(e.trace[last].cfg.bpm),
                  !.currentBeat = @ + 1]

\* Faulty variant, for sensitivity of the properties: every other beat is
\* skipped.
advanceBeatSkipping(e) ==
    [e EXCEPT !.nextBeatTime = @ + 2 * BeatInterval(e.settings.bpm),
              !.currentBeat = @ + 1]

\* metronome.ts:175-180
advanceBeat(e) ==
    [e EXCEPT !.nextBeatTime = @ + BeatInterval(e.settings.bpm),
              !.currentBeat = @ + 1]

\* Faulty variant, for sensitivity of the properties: the target is reached one loop late.
targetReachedLate(s) == s.targetLoops > 0 /\ s.currentLoop > s.targetLoops

\* Faulty variant, for sensitivity of the properties: a target of 0 counts as a target.
targetReachedAlways(s) == s.currentLoop >= s.targetLoops

\* Faulty variant, for sensitivity of the properties: the target is never
\* reached.
targetReachedNever(s) == s.targetLoops < 0

\* The loop target test of metronome.ts:190
targetReached(s) == s.targetLoops > 0 /\ s.currentLoop >= s.targetLoops

\* The beat of one pass of the loop: metronome.ts:139-173
playBeat(e, isDownbeat) ==
    IF e.isCountingIn THEN countInBeat(e, isDownbeat)
    ELSE normalBeat(e, isDownbeat)

\* The while loop of scheduleBeats, metronome.ts:135-201, is beatLoop and the
\* three operators before it, each the rest of a pass from one point on.  now
\* is the clock reading taken before the loop; returned says the loop left
\* through the return of line 193.

\* metronome.ts:190-199, for the engine e that has emitted loopEnd
loopWrapped(e, now) ==
    IF targetReached(e.settings)
    THEN [e |-> stop(emitSettings(e, "loopComplete")), returned |-> TRUE]
    ELSE beatLoop(
             emitSettings([e EXCEPT !.currentMeasure = e.settings.loopStartMeasure],
                          "loopStart"),
             now)

\* metronome.ts:185-200, for the engine e that has entered a new measure
measureEntered(e, now) ==
    IF e.settings.loopEnabled /\ e.currentMeasure > e.settings.loopEndMeasure
    THEN loopWrapped(
             emitSettings([e EXCEPT !.settings.currentLoop = @ + 1], "loopEnd"),
             now)
    ELSE beatLoop(e, now)

\* metronome.ts:181-200, for the engine e that has advanced to the next beat
beatAdvanced(e, now) ==
    IF ~e.isCountingIn
       /\ e.currentBeat % e.settings.timeSignatureNumerator = 0
    THEN measureEntered([e EXCEPT !.currentMeasure = @ + 1], now)
    ELSE beatLoop(e, now)

\* The test of the loop and, if it passes, the body: metronome.ts:135-201
beatPass(e, now) ==
    IF ~(e.nextBeatTime < now + Lookahead)
    THEN [e |-> e, returned |-> FALSE]
    ELSE beatAdvanced(
             advanceBeat(
                 playBeat(e, e.currentBeat % e.settings.timeSignatureNumerator = 0)),
             now)

\* metronome.ts:135-201.  The engine x the loop comes to its test with is
\* computed once.
beatLoop(e, now) == CHOOSE r \in {beatPass(x, now) : x \in {e}} : TRUE

\* this.timerId = window.setTimeout(() => this.scheduleBeats(), 10)
armTimer(e) == [e EXCEPT !.pendingTimers = @ + 1, !.timerId = "live"]

\* Faulty variant, for sensitivity of the properties: the pass does not
\* re-arm itself.
afterLoopNoRearm(r) == r.e

\* The end of scheduleBeats, metronome.ts:193 and 204, for the result r of
\* the loop.
afterLoop(r) == IF r.returned THEN r.e ELSE armTimer(r.e)

\* scheduleBeats(): metronome.ts:129-205
scheduleBeats(e, now) ==
    IF e.audioContext = 0 \/ ~e.isPlaying THEN e
    ELSE afterLoop(beatLoop(e, now))

-----------------------------------------------------------------------------
(* The audio context and the asynchronous part of start().                  *)

Backends == {"unavailable", "suspended", "running"}

\* A call suspended at an await.  pc says where:
\*   "initResume"   initializeAudioContext() at line 75, on resume() of ctx,
\*                  called by the constructor or by start()
\*   "ensureInit"   initializeAudioContext() at line 75, on resume() of ctx,
\*                  called by ensureAudioContext()
\*   "initDone"     start() at line 232 or ensureAudioContext() at line 385,
\*                  on an initialisation that succeeded
\*   "initFailed"   the same, on an initialisation that threw
\*   "startResume"  start() at line 240, on resume() of ctx
\*   "ensureResume" ensureAudioContext() at line 389, on resume() of ctx
\* starter says that the call that waits is a start(), or an initialisation
\* a start() awaits.
Task(pc, ctx, starter) == [pc |-> pc, ctx |-> ctx, starter |-> starter]

suspend(e, task) == [e EXCEPT !.tasks = Append(@, task)]

\* The tasks that continue as soon as the caller's code has returned.
IsMicrotask(t) == t.pc \in {"initDone", "initFailed"}

\* start() rejects.
rejected(e) == Log(e, [Entry("throw", e.settings) EXCEPT !.op = "start"])

\* ensureAudioContext() rejects.
ensureRejected(e) ==
    Log(e, [Entry("throw", e.settings) EXCEPT !.op = "ensureAudioContext"])

\* new AudioContext(...): metronome.ts:68-71.  The context is the current
\* one from now on, and its clock, this.audioContext.currentTime, reads 0.
newAudioContext(e, b) ==
    [e EXCEPT !.contexts = Append(@, b), !.audioContext = Len(e.contexts) + 1,
              !.currentTime = 0]

\* initializeAudioContext(), up to its first await: metronome.ts:65-91
initializeAudioContext(e, b, starter) ==
    IF b = "unavailable"
    THEN IF starter THEN suspend(e, Task("initFailed", 0, TRUE)) ELSE e
    ELSE LET e1 == newAudioContext(e, b)
         IN  IF b = "suspended"
             THEN suspend(e1, Task("initResume", e1.audioContext, starter))
             ELSE LET e2 == [e1 EXCEPT !.isInitialized = TRUE]
                  IN  IF starter THEN suspend(e2, Task("initDone", 0, TRUE))
                      ELSE e2

\* await this.initializeAudioContext() in ensureAudioContext(), up to the
\* first await: metronome.ts:385 and 65-91
ensureInitialize(e, b) ==
    IF b = "unavailable" THEN suspend(e, Task("initFailed", 0, FALSE))
    ELSE IF b = "suspended"
    THEN suspend(newAudioContext(e, b),
                 Task("ensureInit", Len(e.contexts) + 1, FALSE))
    ELSE suspend([newAudioContext(e, b) EXCEPT !.isInitialized = TRUE],
                 Task("initDone", 0, FALSE))

\* ensureAudioContext() from line 388 on: metronome.ts:388-390
ensureResume(e) ==
    IF e.audioContext # 0 /\ e.contexts[e.audioContext] = "suspended"
    THEN suspend(e, Task("ensureResume", e.audioContext, FALSE))
    ELSE e

\* ensureAudioContext(), up to its first await: metronome.ts:383-391
ensureAudioContext(e, b) ==
    IF ~e.isInitialized \/ e.audioContext = 0 THEN ensureInitialize(e, b)
    ELSE ensureResume(e)

\* start() from line 243 on with this.audioContext null, as a destroy()
\* during the await of line 240 leaves it: lines 243-244 are run, the read
\* of this.audioContext.currentTime at line 245 throws and start() rejects.
startWithoutContext(e) ==
    rejected([e EXCEPT !.isPlaying = TRUE, !.settings.isPlaying = TRUE])

\* Faulty variant, for sensitivity of the properties: the loop counter is not
\* reset.
startKeepLoop(e, now) ==
    IF e.audioContext = 0 THEN startWithoutContext(e) ELSE
    LET e1 == [e EXCEPT !.isPlaying = TRUE, !.settings.isPlaying = TRUE,
                        !.nextBeatTime = now]
        e2 == IF e1.settings.countInEnabled
              THEN LET x == [e1 EXCEPT !.isCountingIn = TRUE,
                                       !.countInBeatsRemaining = e1.settings.countInBeats,
                                       !.currentBeat = 0, !.currentMeasure = 1]
                   IN  emitSettings(x, "countInStart")
              ELSE [e1 EXCEPT !.isCountingIn = FALSE, !.currentBeat = 0,
                              !.currentMeasure = IF e1.settings.loopEnabled
                                                 THEN e1.settings.loopStartMeasure
                                                 ELSE 1]
    IN  emitSettings(scheduleBeats(e2, now), "start")

\* start(): metronome.ts:230-265
start(e, now) ==
    IF e.audioContext = 0 THEN startWithoutContext(e) ELSE
    LET e1 == [e EXCEPT !.isPlaying = TRUE, !.settings.isPlaying = TRUE,
                        !.nextBeatTime = now]
        e2 == IF e1.settings.countInEnabled
              THEN LET x == [e1 EXCEPT !.isCountingIn = TRUE,
                                       !.countInBeatsRemaining = e1.settings.countInBeats,
                                       !.currentBeat = 0, !.currentMeasure = 1]
                   IN  emitSettings(x, "countInStart")
              ELSE [e1 EXCEPT !.isCountingIn = FALSE, !.currentBeat = 0,
                              !.currentMeasure = IF e1.settings.loopEnabled
                                                 THEN e1.settings.loopStartMeasure
                                                 ELSE 1]
        e3 == [e2 EXCEPT !.settings.currentLoop = 0]
    IN  emitSettings(scheduleBeats(e3, now), "start")

\* start() from its last await on, up to its next await if it has one.  The
\* await of line 232 returns to the checks of lines 235-241 (checked), the
\* one of line 240 to line 243.
continueStart(e, now, checked) ==
    IF checked /\ e.audioContext = 0 THEN rejected(e)
    ELSE IF checked /\ e.contexts[e.audioContext] = "suspended"
    THEN suspend(e, Task("startResume", e.audioContext, TRUE))
    ELSE start(e, now)

\* start() from line 235 on, up to its next await.
resumeStart(e, now) == continueStart(e, now, TRUE)

\* Faulty variant, for sensitivity of the properties: the engine is marked as
\* playing before the audio context is acquired.
startAsyncEager(e, now, b) ==
    IF ~e.isInitialized
    THEN initializeAudioContext(
             [e EXCEPT !.isPlaying = TRUE, !.settings.isPlaying = TRUE], b, TRUE)
    ELSE resumeStart(e, now)

\* start(), up to its first await: metronome.ts:230-265
startAsync(e, now, b) ==
    IF ~e.isInitialized THEN initializeAudioContext(e, b, TRUE)
    ELSE resumeStart(e, now)

\* Task k leaves the list.
dequeue(e, k) == [e EXCEPT !.tasks = splice(@, k)]

\* The call that awaits the initialisation of task t, if there is one, gets
\* its turn once the caller's code has returned: as pc says, the
\* initialisation is done or has failed.
settled(e, t, pc) ==
    IF t.starter THEN suspend(e, Task(pc, 0, TRUE))
    ELSE IF t.pc = "ensureInit" THEN suspend(e, Task(pc, 0, FALSE))
    ELSE e

\* resume() of the context ctx is fulfilled: the context runs.
resumed(e, ctx) ==
    [e EXCEPT !.contexts[ctx] = IF @ = "closed" THEN @ ELSE "running"]

\* initializeAudioContext() from line 78 on, metronome.ts:78-90, for the
\* task t of it: the reads of this.audioContext throw if a destroy() has
\* set it to null in the meantime, else line 86 is reached.
initialized(e, t) ==
    IF e.audioContext = 0 THEN settled(e, t, "initFailed")
    ELSE settled([e EXCEPT !.isInitialized = TRUE], t, "initDone")

\* The promise task k awaits is settled in favour of the call, and the call
\* runs up to its next await or to its end: a resume() is fulfilled, or the
\* caller's code has returned and the call that waited on a settled
\* initialisation goes on.
fulfil(e, k, now) ==
    LET t == e.tasks[k]
    IN  CASE t.pc \in {"initResume", "ensureInit"} ->
                 initialized(resumed(dequeue(e, k), t.ctx), t)
          [] t.pc = "startResume" ->
                 continueStart(resumed(dequeue(e, k), t.ctx), now, FALSE)
          [] t.pc = "ensureResume" -> resumed(dequeue(e, k), t.ctx)
          [] t.pc = "initDone" ->
                 IF t.starter THEN continueStart(dequeue(e, k), now, TRUE)
                 ELSE ensureResume(dequeue(e, k))
          [] t.pc = "initFailed" ->
                 IF t.starter THEN rejected(dequeue(e, k))
                 ELSE ensureRejected(dequeue(e, k))

\* The promise task k awaits is rejected: resume() failed.  An
\* initialisation throws from its catch block (line 89), and the call that
\* awaits it gets its turn later; a start() or an ensureAudioContext() that
\* awaits the resume() itself rejects.
reject(e, k) ==
    LET t == e.tasks[k]
    IN  CASE t.pc \in {"initResume", "ensureInit"} ->
                 settled(dequeue(e, k), t, "initFailed")
          [] t.pc = "startResume" -> rejected(dequeue(e, k))
          [] t.pc = "ensureResume" -> ensureRejected(dequeue(e, k))

\* A setter that passed its validation: the write, then settingsChange.
applied(e, s) == emitSettings([e EXCEPT !.settings = s], "settingsChange")

\* A setter that threw.
thrown(e) == Log(e, Entry("throw", e.settings))

\* Faulty variant, for sensitivity of the properties: the bounds of the tempo are refused.
setBpmStrict(e, bpm) ==
    IF bpm <= MinBpm \/ bpm >= MaxBpm THEN thrown(e)
    ELSE applied(e, [e.settings EXCEPT !.bpm = bpm])

\* setBpm(): metronome.ts:279-286
setBpm(e, bpm) ==
    IF bpm < MinBpm \/ bpm > MaxBpm THEN thrown(e)
    ELSE applied(e, [e.settings EXCEPT !.bpm = bpm])

\* Faulty variant, for sensitivity of the properties: a new time signature
\* restarts the measure.
setTimeSignatureRestart(e, numerator, denominator) ==
    IF numerator < MinNumerator \/ numerator > MaxNumerator THEN thrown(e)
    ELSE IF denominator \notin Denominators THEN thrown(e)
    ELSE applied([e EXCEPT !.currentBeat = 0],
                 [e.settings EXCEPT !.timeSignatureNumerator = numerator,
                                    !.timeSignatureDenominator = denominator])

\* setTimeSignature(): metronome.ts:288-300
setTimeSignature(e, numerator, denominator) ==
    IF numerator < MinNumerator \/ numerator > MaxNumerator THEN thrown(e)
    ELSE IF denominator \notin Denominators THEN thrown(e)
    ELSE applied(e, [e.settings EXCEPT !.timeSignatureNumerator = numerator,
                                       !.timeSignatureDenominator = denominator])

\* setVolume(): metronome.ts:302-309
setVolume(e, volume) ==
    IF volume < MinVolume \/ volume > MaxVolume THEN thrown(e)
    ELSE applied(e, [e.settings EXCEPT !.volume = volume])

\* setCountInEnabled(): metronome.ts:311-314
setCountInEnabled(e, enabled) ==
    applied(e, [e.settings EXCEPT !.countInEnabled = enabled])

\* Faulty variant, for sensitivity of the properties: the new length applies
\* to the count-in that is running.
setCountInBeatsLive(e, beats) ==
    IF beats < MinCountInBeats \/ beats > MaxCountInBeats THEN thrown(e)
    ELSE applied([e EXCEPT !.countInBeatsRemaining = beats],
                 [e.settings EXCEPT !.countInBeats = beats])

\* setCountInBeats(): metronome.ts:316-323
setCountInBeats(e, beats) ==
    IF beats < MinCountInBeats \/ beats > MaxCountInBeats THEN thrown(e)
    ELSE applied(e, [e.settings EXCEPT !.countInBeats = beats])

\* setCountInVolume(): metronome.ts:325-332
setCountInVolume(e, volume) ==
    IF volume < MinVolume \/ volume > MaxVolume THEN thrown(e)
    ELSE applied(e, [e.settings EXCEPT !.countInVolume = volume])

\* setLoopEnabled(): metronome.ts:334-337
setLoopEnabled(e, enabled) ==
    applied(e, [e.settings EXCEPT !.loopEnabled = enabled])

\* Faulty variant, for sensitivity of the properties: the start is written before the end is validated.
setLoopRangePartial(e, startMeasure, endMeasure) ==
    IF startMeasure < 1 THEN thrown(e)
    ELSE IF endMeasure <= startMeasure
         THEN thrown([e EXCEPT !.settings.loopStartMeasure = startMeasure])
    ELSE applied(e, [e.settings EXCEPT !.loopStartMeasure = startMeasure,
                                       !.loopEndMeasure = endMeasure])

\* Faulty variant, for sensitivity of the properties: the end is not compared with the start.
setLoopRangeUnordered(e, startMeasure, endMeasure) ==
    IF startMeasure < 1 THEN thrown(e)
    ELSE applied(e, [e.settings EXCEPT !.loopStartMeasure = startMeasure,
                                       !.loopEndMeasure = endMeasure])

\* setLoopRange(): metronome.ts:339-350
setLoopRange(e, startMeasure, endMeasure) ==
    IF startMeasure < 1 THEN thrown(e)
    ELSE IF endMeasure <= startMeasure THEN thrown(e)
    ELSE applied(e, [e.settings EXCEPT !.loopStartMeasure = startMeasure,
                                       !.loopEndMeasure = endMeasure])

\* setTargetLoops(): metronome.ts:352-359
setTargetLoops(e, loops) ==
    IF loops < 0 THEN thrown(e)
    ELSE applied(e, [e.settings EXCEPT !.targetLoops = loops])

\* Faulty variant, for sensitivity of the properties: the beat counter is not
\* recomputed.
jumpToMeasureKeepBeat(e, measure) ==
    IF measure < 1 THEN thrown(e)
    ELSE [e EXCEPT !.currentMeasure = measure]

\* Faulty variant, for sensitivity of the properties: the measure is written
\* before it is validated.
jumpToMeasureWriteFirst(e, measure) ==
    IF measure < 1 THEN thrown([e EXCEPT !.currentMeasure = measure])
    ELSE [e EXCEPT !.currentMeasure = measure,
                   !.currentBeat = (measure - 1) * e.settings.timeSignatureNumerator]

\* Faulty variant, for sensitivity of the properties: the measure is not
\* validated.
jumpToMeasureUnchecked(e, measure) ==
    [e EXCEPT !.currentMeasure = measure,
              !.currentBeat = (measure - 1) * e.settings.timeSignatureNumerator]

\* jumpToMeasure(): metronome.ts:365-373
jumpToMeasure(e, measure) ==
    IF measure < 1 THEN thrown(e)
    ELSE [e EXCEPT !.currentMeasure = measure,
                   !.currentBeat = (measure - 1) * e.settings.timeSignatureNumerator]

\* Faulty variant, for sensitivity of the properties: the settings object
\* itself is returned.
getSettingsAlias(e) == [alias |-> TRUE, val |-> e.settings]

\* isRunning(): metronome.ts:379-381
isRunning(e) == e.isPlaying

\* getSettings(): metronome.ts:375-377.  The value returned is an object:
\* alias says whether it is the engine's settings object itself, val holds
\* its fields if it is an object of its own.
getSettings(e) == [alias |-> FALSE, val |-> e.settings]

-----------------------------------------------------------------------------
(* Inputs. *)

\* Arguments of the setters: in and out of each domain, the bounds included.
BpmInputs == {29, 30, 150, 300, 301}
TimeSignatureInputs ==
    {<<0, 4>>, <<1, 1>>, <<3, 4>>, <<12, 16>>, <<13, 4>>, <<3, 3>>, <<0, 3>>}
VolumeInputs == {-1, 0, 100, 101}
CountInBeatsInputs == {0, 1, 3, 8, 9}
LoopRangeInputs == {<<0, 2>>, <<1, 3>>, <<2, 3>>, <<2, 2>>, <<3, 2>>, <<0, 0>>}
TargetLoopsInputs == {-1, 0, 1, 2}
MeasureInputs == {0, 1, 3}

\* The configurations SpecAudio begins with: with and without a count-in.
AudioSettings ==
    {[DefaultSettings EXCEPT !.bpm = 300, !.timeSignatureNumerator = 2,
                             !.countInEnabled = ci, !.countInBeats = 1] :
        ci \in BOOLEAN}

\* The handlers the host subscribes in SpecBus.
BusHandlers == {PlainHandler, OnceHandler, RemoverHandler, AdderHandler}

\* Arguments of the calls made while the transport runs.
LiveBpmInputs == {150, 300, 301}
LiveTimeSignatureInputs == {<<1, 4>>, <<3, 4>>}
LiveVolumeInputs == {100}
LiveCountInBeatsInputs == {1, 3}
LiveLoopRangeInputs == {<<2, 3>>, <<3, 2>>}
LiveTargetLoopsInputs == {-1, 0, 1}
LiveMeasureInputs == {0, 1, 3}

\* The engine as configured before the behaviour begins: the constructor's
\* defaults, or a configuration the setters reach from them.
InitialSettings ==
    {DefaultSettings} \cup
    {[DefaultSettings EXCEPT !.bpm = 300, !.timeSignatureNumerator = num,
                             !.countInEnabled = ci[1], !.countInBeats = ci[2],
                             !.loopEnabled = lp[1], !.loopStartMeasure = 1,
                             !.loopEndMeasure = 2, !.targetLoops = lp[2]] :
        num \in {1, 2},
        ci \in {<<FALSE, 4>>, <<TRUE, 1>>, <<TRUE, 2>>},
        lp \in {<<FALSE, 0>>, <<TRUE, 0>>, <<TRUE, 1>>, <<TRUE, 2>>}}

-----------------------------------------------------------------------------
(* Actions. *)

IsCall(x) == x.type = "call"

NumCalls == Cardinality({i \in 1..Len(trace) : IsCall(trace[i])})

TransportOps ==
    {"start", "stop", "destroy", "ensureAudioContext", "addEventListener",
     "removeEventListener"}

NumEdits ==
    Cardinality({i \in 1..Len(trace) :
                    IsCall(trace[i]) /\ trace[i].op \notin TransportOps})

CanCall == NumCalls < MaxCalls

CanEdit(max) == NumEdits < max /\ (max = MaxEdits => CanCall)

Call(op, a, b) == Log(Eng, CallEntry(op, a, b, settings))

\* The field initialisers: metronome.ts:33-59
Fields ==
    /\ isPlaying = FALSE
    /\ nextBeatTime = 0
    /\ currentBeat = 0
    /\ currentMeasure = 1
    /\ timerId = "null"
    /\ isCountingIn = FALSE
    /\ countInBeatsRemaining = 0
    /\ pendingTimers = 0
    /\ currentTime = 0
    /\ listeners = <<>>
    /\ held = <<>>
    /\ trace = <<>>

\* The constructor (metronome.ts:61-63) has called initializeAudioContext()
\* with the backend as b.
Constructed(b) ==
    LET e == initializeAudioContext(
                 [isInitialized |-> FALSE, audioContext |-> 0,
                  contexts |-> <<>>, tasks |-> <<>>, currentTime |-> 0],
                 b, FALSE)
    IN  /\ backend = b
        /\ isInitialized = e.isInitialized
        /\ audioContext = e.audioContext
        /\ contexts = e.contexts
        /\ tasks = e.tasks

Init ==
    /\ settings \in InitialSettings
    /\ Fields
    /\ Constructed("running")

\* No continuation is waiting for the caller's code to return; until then
\* neither a timer nor the clock gets its turn.
NoMicrotask == \A k \in 1..Len(tasks) : ~IsMicrotask(tasks[k])

\* The clock of the current audio context runs: there is one, and it is not
\* suspended.
ClockRuns == audioContext > 0 /\ contexts[audioContext] = "running"

\* The audio clock advances.
Tick ==
    /\ NoMicrotask
    /\ ClockRuns
    /\ \E t \in ClockPoints : t > currentTime /\ currentTime' = t
    /\ UNCHANGED <<settings, isPlaying, nextBeatTime, currentBeat, currentMeasure,
                   timerId, isCountingIn, countInBeatsRemaining, pendingTimers,
                   listeners, isInitialized, audioContext, contexts, tasks,
                   backend, held, trace>>

\* A pending timeout fires and runs scheduleBeats: the one this.timerId names,
\* or one whose id was overwritten.
TimerFires ==
    /\ NoMicrotask
    /\ pendingTimers > 0
    /\ \E tracked \in BOOLEAN :
         /\ tracked => timerId = "live"
         /\ ~tracked => pendingTimers > (IF timerId = "live" THEN 1 ELSE 0)
         /\ Commit(scheduleBeats(
                [Eng EXCEPT !.pendingTimers = @ - 1,
                            !.timerId = IF tracked THEN "stale" ELSE @],
                currentTime))
    /\ UNCHANGED <<backend, held>>

Start ==
    /\ CanCall
    /\ Commit(startAsync(Call("start", 0, 0), currentTime, backend))
    /\ UNCHANGED <<backend, held>>

Stop ==
    /\ CanCall
    /\ Commit(stop(Call("stop", 0, 0)))
    /\ UNCHANGED <<backend, held>>

AddStopListener ==
    /\ CanCall
    /\ Commit(addEventListener(Call("addEventListener", StopHandler, 0), StopHandler))
    /\ UNCHANGED <<backend, held>>

RemoveStopListener ==
    /\ CanCall
    /\ Commit(removeEventListener(Call("removeEventListener", StopHandler, 0),
                                   StopHandler))
    /\ UNCHANGED <<backend, held>>

SetBpm(inputs, max) ==
    /\ CanEdit(max)
    /\ \E bpm \in inputs : Commit(setBpm(Call("setBpm", bpm, 0), bpm))
    /\ UNCHANGED <<backend, held>>

SetTimeSignature(inputs, max) ==
    /\ CanEdit(max)
    /\ \E ts \in inputs :
         Commit(setTimeSignature(Call("setTimeSignature", ts[1], ts[2]), ts[1], ts[2]))
    /\ UNCHANGED <<backend, held>>

SetVolume(inputs, max) ==
    /\ CanEdit(max)
    /\ \E v \in inputs : Commit(setVolume(Call("setVolume", v, 0), v))
    /\ UNCHANGED <<backend, held>>

SetCountInEnabled(max) ==
    /\ CanEdit(max)
    /\ \E en \in BOOLEAN :
         Commit(setCountInEnabled(Call("setCountInEnabled", Bit(en), 0), en))
    /\ UNCHANGED <<backend, held>>

SetCountInBeats(inputs, max) ==
    /\ CanEdit(max)
    /\ \E n \in inputs : Commit(setCountInBeats(Call("setCountInBeats", n, 0), n))
    /\ UNCHANGED <<backend, held>>

SetCountInVolume(inputs, max) ==
    /\ CanEdit(max)
    /\ \E v \in inputs : Commit(setCountInVolume(Call("setCountInVolume", v, 0), v))
    /\ UNCHANGED <<backend, held>>

SetLoopEnabled(max) ==
    /\ CanEdit(max)
    /\ \E en \in BOOLEAN :
         Commit(setLoopEnabled(Call("setLoopEnabled", Bit(en), 0), en))
    /\ UNCHANGED <<backend, held>>

SetLoopRange(inputs, max) ==
    /\ CanEdit(max)
    /\ \E r \in inputs :
         Commit(setLoopRange(Call("setLoopRange", r[1], r[2]), r[1], r[2]))
    /\ UNCHANGED <<backend, held>>

SetTargetLoops(inputs, max) ==
    /\ CanEdit(max)
    /\ \E n \in inputs : Commit(setTargetLoops(Call("setTargetLoops", n, 0), n))
    /\ UNCHANGED <<backend, held>>

JumpToMeasure(inputs, max) ==
    /\ CanEdit(max)
    /\ \E m \in inputs : Commit(jumpToMeasure(Call("jumpToMeasure", m, 0), m))
    /\ UNCHANGED <<backend, held>>

\* The engine in use: the clock, the timer, and the API called while it runs.
Next ==
    \/ Tick
    \/ TimerFires
    \/ Start
    \/ Stop
    \/ AddStopListener
    \/ RemoveStopListener
    \/ SetBpm(LiveBpmInputs, MaxEdits)
    \/ SetTimeSignature(LiveTimeSignatureInputs, MaxEdits)
    \/ SetVolume(LiveVolumeInputs, MaxEdits)
    \/ SetCountInEnabled(MaxEdits)
    \/ SetCountInBeats(LiveCountInBeatsInputs, MaxEdits)
    \/ SetCountInVolume(LiveVolumeInputs, MaxEdits)
    \/ SetLoopEnabled(MaxEdits)
    \/ SetLoopRange(LiveLoopRangeInputs, MaxEdits)
    \/ SetTargetLoops(LiveTargetLoopsInputs, MaxEdits)
    \/ JumpToMeasure(LiveMeasureInputs, MaxEdits)

Spec == Init /\ [][Next]_vars

\* The settings store alone: every setter, with arguments in and out of its
\* domain.
NextSettings ==
    \/ SetBpm(BpmInputs, MaxSettingsCalls)
    \/ SetTimeSignature(TimeSignatureInputs, MaxSettingsCalls)
    \/ SetVolume(VolumeInputs, MaxSettingsCalls)
    \/ SetCountInEnabled(MaxSettingsCalls)
    \/ SetCountInBeats(CountInBeatsInputs, MaxSettingsCalls)
    \/ SetCountInVolume(VolumeInputs, MaxSettingsCalls)
    \/ SetLoopEnabled(MaxSettingsCalls)
    \/ SetLoopRange(LoopRangeInputs, MaxSettingsCalls)
    \/ SetTargetLoops(TargetLoopsInputs, MaxSettingsCalls)
    \/ JumpToMeasure(MeasureInputs, MaxSettingsCalls)

SpecSettings == Init /\ [][NextSettings]_vars

\* The host subscribes one of its recording handlers to 'beat'.
Subscribe ==
    /\ NumCalls < MaxBusCalls
    /\ \E h \in BusHandlers :
         Commit(addEventListener(Call("addEventListener", h, 0), h))
    /\ UNCHANGED <<backend, held>>

\* The host unsubscribes one of them.
Unsubscribe ==
    /\ NumCalls < MaxBusCalls
    /\ \E h \in BusHandlers :
         Commit(removeEventListener(Call("removeEventListener", h, 0), h))
    /\ UNCHANGED <<backend, held>>

StartBus ==
    /\ NumCalls < MaxBusCalls
    /\ Commit(startAsync(Call("start", 0, 0), currentTime, backend))
    /\ UNCHANGED <<backend, held>>

\* The event bus in use: handlers come and go, between the dispatches and
\* during them, while the engine emits beats.
NextBus ==
    \/ Subscribe
    \/ Unsubscribe
    \/ StartBus
    \/ Tick
    \/ TimerFires

SpecBus == Init /\ [][NextBus]_vars

\* What the h-th value handed out by getSettings() holds now.
Content(h) == IF held[h].obj.alias THEN settings ELSE held[h].obj.val

\* The host calls getSettings() and keeps the value, noting what it held.
GetSettings ==
    /\ NumCalls < MaxReadsCalls
    /\ Commit(Call("getSettings", 0, 0))
    /\ held' = Append(held, [obj |-> getSettings(Eng), orig |-> settings,
                             edited |-> FALSE])
    /\ UNCHANGED backend

\* The host writes bpm = 0 into a value it holds.
EditHeld ==
    \E h \in 1..Len(held) :
        /\ ~held[h].edited
        /\ IF held[h].obj.alias
           THEN /\ settings' = [settings EXCEPT !.bpm = 0]
                /\ held' = [held EXCEPT ![h].edited = TRUE]
           ELSE /\ settings' = settings
                /\ held' = [held EXCEPT ![h].edited = TRUE, ![h].obj.val.bpm = 0]
        /\ UNCHANGED <<isPlaying, nextBeatTime, currentBeat, currentMeasure,
                       timerId, isCountingIn, countInBeatsRemaining,
                       pendingTimers, currentTime, listeners, isInitialized,
                       audioContext, contexts, tasks, backend, trace>>

StartReads ==
    /\ NumCalls < MaxReadsCalls
    /\ Commit(startAsync(Call("start", 0, 0), currentTime, backend))
    /\ UNCHANGED <<backend, held>>

StopReads ==
    /\ NumCalls < MaxReadsCalls
    /\ Commit(stop(Call("stop", 0, 0)))
    /\ UNCHANGED <<backend, held>>

SetBpmReads ==
    /\ NumCalls < MaxReadsCalls
    /\ \E bpm \in LiveBpmInputs : Commit(setBpm(Call("setBpm", bpm, 0), bpm))
    /\ UNCHANGED <<backend, held>>

\* The host reads the settings and keeps what it read while the engine is
\* started, stopped, retuned and runs its passes.
NextReads ==
    \/ GetSettings
    \/ EditHeld
    \/ StartReads
    \/ StopReads
    \/ SetBpmReads
    \/ Tick
    \/ TimerFires

SpecReads == Init /\ [][NextReads]_vars

\* The engine as constructed under any backend.
InitAudio ==
    /\ settings \in AudioSettings
    /\ Fields
    /\ \E b \in Backends : Constructed(b)

StartAudio ==
    /\ NumCalls < MaxAudioCalls
    /\ Commit(startAsync(Call("start", 0, 0), currentTime, backend))
    /\ UNCHANGED <<backend, held>>

StopAudio ==
    /\ NumCalls < MaxAudioCalls
    /\ Commit(stop(Call("stop", 0, 0)))
    /\ UNCHANGED <<backend, held>>

DestroyAudio ==
    /\ NumCalls < MaxAudioCalls
    /\ Commit(destroy(Call("destroy", 0, 0)))
    /\ UNCHANGED <<backend, held>>

EnsureAudio ==
    /\ NumCalls < MaxAudioCalls
    /\ Commit(ensureAudioContext(Call("ensureAudioContext", 0, 0), backend))
    /\ UNCHANGED <<backend, held>>

IsResume(t) ==
    t.pc \in {"initResume", "ensureInit", "startResume", "ensureResume"}

\* An await returns and the call continues: a resume() is fulfilled, or the
\* caller's code has returned and the oldest start() waiting on a settled
\* initialisation gets its turn.
AwaitReturns ==
    /\ \E k \in 1..Len(tasks) :
         /\ IF IsMicrotask(tasks[k])
            THEN \A j \in 1..(k - 1) : ~IsMicrotask(tasks[j])
            ELSE NoMicrotask
         /\ Commit(fulfil(Eng, k, currentTime))
    /\ UNCHANGED <<backend, held>>

\* A resume() some call awaits is rejected.
ResumeRejects ==
    /\ NoMicrotask
    /\ \E k \in 1..Len(tasks) :
         /\ IsResume(tasks[k])
         /\ Commit(reject(Eng, k))
    /\ UNCHANGED <<backend, held>>

\* The audio backend becomes available or unavailable, or starts to hand out
\* suspended contexts.
BackendChanges ==
    /\ NoMicrotask
    /\ \E b \in Backends \ {backend} : backend' = b
    /\ UNCHANGED <<settings, isPlaying, nextBeatTime, currentBeat, currentMeasure,
                   timerId, isCountingIn, countInBeatsRemaining, pendingTimers,
                   currentTime, listeners, isInitialized, audioContext, contexts,
                   tasks, held, trace>>

\* start() and stop() against an audio backend that comes and goes.
NextAudio ==
    \/ StartAudio
    \/ StopAudio
    \/ DestroyAudio
    \/ EnsureAudio
    \/ AwaitReturns
    \/ ResumeRejects
    \/ BackendChanges
    \/ Tick
    \/ TimerFires

SpecAudio == InitAudio /\ [][NextAudio]_vars

Destroy ==
    /\ CanCall
    /\ Commit(destroy(Call("destroy", 0, 0)))
    /\ UNCHANGED <<backend, held>>

\* The life of an engine: started, stopped by a call, by a beat listener or
\* by the loop target, destroyed, and started again.
NextLifecycle ==
    \/ Start
    \/ Stop
    \/ Destroy
    \/ AddStopListener
    \/ AwaitReturns
    \/ Tick
    \/ TimerFires

SpecLifecycle == Init /\ [][NextLifecycle]_vars

\* Readings of the audio clock in SpecLive: every interval of the fastest
\* tempo up to the horizon.
LiveHorizon == BeatInterval(MaxBpm) * MaxLiveTicks

LiveClockPoints == {BeatInterval(MaxBpm) * k : k \in 0..MaxLiveTicks}

\* The audio clock advances, by one interval or by several.  The clock of
\* SpecLive counts from the start() call.
TickLive ==
    /\ trace # <<>>
    /\ NoMicrotask
    /\ ClockRuns
    /\ \E t \in LiveClockPoints : t > currentTime /\ currentTime' = t
    /\ UNCHANGED <<settings, isPlaying, nextBeatTime, currentBeat, currentMeasure,
                   timerId, isCountingIn, countInBeatsRemaining, pendingTimers,
                   listeners, isInitialized, audioContext, contexts, tasks,
                   backend, held, trace>>

\* The one call of the behaviour: start().
StartLive ==
    /\ trace = <<>>
    /\ Commit(startAsync(Call("start", 0, 0), currentTime, backend))
    /\ UNCHANGED <<backend, held>>

\* The engine started once and then left to itself: the clock and the timer.
NextLive ==
    \/ StartLive
    \/ TickLive
    \/ TimerFires

\* The timeout the engine armed fires (setTimeout, metronome.ts:204) and the
\* audio clock advances up to the horizon.
SpecLive ==
    /\ Init
    /\ [][NextLive]_vars
    /\ WF_vars(TickLive)
    /\ WF_vars(TimerFires)

-----------------------------------------------------------------------------
(* Reading the trace. *)

IsBeat(x) == x.type = "beat"

IsStartCall(x) == IsCall(x) /\ x.op = "start"

BeatIdx == {i \in 1..Len(trace) : IsBeat(trace[i])}

\* The last start() call, 0 if there was none.
LastStart == Max({0} \cup {i \in 1..Len(trace) : IsStartCall(trace[i])})

\* i and j lie in one session: no start() call between them.
SameSession(i, j) == \A k \in i..j : ~IsStartCall(trace[k])

\* No API call between i and j.
NoCallBetween(i, j) == \A k \in (i + 1)..(j - 1) : ~IsCall(trace[k])

\* j is the first beat after i.
NextBeat(i, j) ==
    /\ j \in BeatIdx /\ i < j
    /\ \A k \in (i + 1)..(j - 1) : ~IsBeat(trace[k])

\* The current session runs since its start() with no call by the user or by a
\* listener.
QuietSession ==
    /\ LastStart > 0
    /\ listeners = <<>>
    /\ \A k \in (LastStart + 1)..Len(trace) : ~IsCall(trace[k])

\* The beats of the current session, in order.
SessionBeats == SelectSeq(SubSeq(trace, LastStart + 1, Len(trace)), IsBeat)

SessionHas(type) == \E k \in (LastStart + 1)..Len(trace) : trace[k].type = type

-----------------------------------------------------------------------------
(* C1: count-in boundary.  After start() with countInEnabled and no other   *)
(* call, exactly the first countInBeats beats are count-in beats, and the   *)
(* beat after them is not, has measure 1 and beat 1, and is a downbeat.     *)
C1_CountInBoundary ==
    (QuietSession /\ settings.countInEnabled) =>
        LET sb == SessionBeats
            n == settings.countInBeats
        IN  \A k \in 1..Len(sb) :
              /\ k <= n => sb[k].isCountIn
              /\ k = n + 1 => /\ ~sb[k].isCountIn
                              /\ sb[k].measure = 1
                              /\ sb[k].beat = 1
                              /\ sb[k].isDownbeat

-----------------------------------------------------------------------------
(* C2: loop wrap with a target.  In a session started with loopEnabled,     *)
(* range s..e and targetLoops N > 0 and no further call, a crossing is a    *)
(* performance beat that is the last beat of measure e.  After the k-th     *)
(* crossing with k < N the next beat has measure s and currentLoop k and    *)
(* the engine plays on; the N-th crossing emits loopComplete and leaves     *)
(* isPlaying false, and it is the last beat.                                *)
Crossings(sb, cfg) ==
    {i \in 1..Len(sb) : /\ ~sb[i].isCountIn
                        /\ sb[i].measure = cfg.loopEndMeasure
                        /\ sb[i].beat = cfg.timeSignatureNumerator}

C2_LoopWrapWithTarget ==
    (QuietSession /\ settings.loopEnabled /\ settings.targetLoops > 0) =>
        LET sb == SessionBeats
            cross == Crossings(sb, settings)
            rank(i) == Cardinality({j \in cross : j <= i})
        IN  /\ \A i \in cross :
                 IF rank(i) < settings.targetLoops
                 THEN i < Len(sb) =>
                        /\ sb[i + 1].measure = settings.loopStartMeasure
                        /\ sb[i + 1].cfg.currentLoop = rank(i)
                 ELSE /\ rank(i) = settings.targetLoops
                      /\ i = Len(sb)
                      /\ SessionHas("loopComplete")
                      /\ ~isPlaying
                      /\ ~settings.isPlaying
            /\ Cardinality(cross) < settings.targetLoops =>
                 /\ isPlaying
                 /\ ~SessionHas("loopComplete")
            /\ settings.currentLoop = Cardinality(cross)

\* A quiet session with target 2 has wrapped once and then completed.
C2_Witness ==
    /\ QuietSession /\ settings.loopEnabled /\ settings.targetLoops = 2
    /\ Cardinality(Crossings(SessionBeats, settings)) = 2
    /\ SessionHas("loopStart")
    /\ ~isPlaying

-----------------------------------------------------------------------------
(* C3: beat ordering.  Over the whole history, a later beat event has a     *)
(* larger scheduledTime than every earlier one: non-decreasing, and no two  *)
(* beats with the same scheduledTime.                                       *)
C3_BeatOrdering ==
    \A i, j \in BeatIdx : i < j => trace[i].timestamp < trace[j].timestamp

-----------------------------------------------------------------------------
(* C4: beat spacing.  Two consecutive beats of one session between which    *)
(* the tempo stayed at bpm are 60 / bpm seconds apart: gap * bpm is one     *)
(* minute.                                                                  *)
BpmUnchanged(i, j) == \A k \in i..j : trace[k].cfg.bpm = trace[i].cfg.bpm

C4_BeatSpacing ==
    \A i, j \in BeatIdx :
        (NextBeat(i, j) /\ SameSession(i, j) /\ BpmUnchanged(i, j)) =>
            (trace[j].timestamp - trace[i].timestamp) * trace[i].cfg.bpm = MsPerMinute

\* Some type of event lies between two consecutive beats of one session.
BeatsAround(type) ==
    \E i, j \in BeatIdx :
        /\ NextBeat(i, j) /\ SameSession(i, j) /\ BpmUnchanged(i, j)
        /\ \E k \in i..j : trace[k].type = type

\* Beats on both sides of the end of the count-in and of a loop wrap, and a
\* late pass that emitted two beats at once.
C4_Witness ==
    /\ BeatsAround("countInEnd")
    /\ BeatsAround("loopStart")
    /\ \E i, j \in BeatIdx :
         /\ NextBeat(i, j)
         /\ trace[j].timestamp + Lookahead <= currentTime

-----------------------------------------------------------------------------
(* C5: live tempo change.  A setBpm(b') that is applied during playback     *)
(* comes between the beat p before it and the beat j after it.              *)
AppliedSetBpm(c) ==
    /\ IsCall(trace[c]) /\ trace[c].op = "setBpm"
    /\ trace[c].cfg.isPlaying
    /\ c < Len(trace) /\ trace[c + 1].type = "settingsChange"

\* p is the last beat before the call c and j the first beat after it, all in
\* one session.
AroundCall(p, c, j) ==
    /\ p \in BeatIdx /\ p < c /\ NextBeat(p, j) /\ c < j
    /\ SameSession(p, j)

\* As claimed: the first beat after the call is 60 / b' after its predecessor.
C5_FirstBeatUsesNewTempo ==
    \A c \in 1..Len(trace) : AppliedSetBpm(c) =>
        \A p, j \in BeatIdx : AroundCall(p, c, j) =>
            (trace[j].timestamp - trace[p].timestamp) * trace[c].a = MsPerMinute

\* As amended: the first beat after the call keeps the time committed before
\* the call, 60 / b after its predecessor for the tempo b in force when the
\* predecessor was emitted, and the beat after that one is 60 / b' after it.
C5_TempoChangeFromSecondBeat ==
    \A c \in 1..Len(trace) : AppliedSetBpm(c) =>
        \A p, j \in BeatIdx : AroundCall(p, c, j) =>
            /\ (trace[j].timestamp - trace[p].timestamp) * trace[p].cfg.bpm = MsPerMinute
            /\ \A j2 \in BeatIdx :
                 (NextBeat(j, j2) /\ SameSession(j, j2) /\ BpmUnchanged(c + 1, j2)) =>
                    (trace[j2].timestamp - trace[j].timestamp) * trace[c].a = MsPerMinute

\* A tempo change during playback, to another tempo, with two beats after it.
C5_Witness ==
    \E c \in 1..Len(trace) :
        /\ AppliedSetBpm(c)
        /\ trace[c].a # trace[c].cfg.bpm
        /\ \E p, j, j2 \in BeatIdx :
             /\ AroundCall(p, c, j)
             /\ NextBeat(j, j2) /\ SameSession(j, j2)

-----------------------------------------------------------------------------
(* C6: stop() is final.  After the last stop event, unless start() was      *)
(* called since, isPlaying is false and no beat event and no click follows. *)
IsStopEvent(x) == x.type = "stop"

C6_StopIsFinal ==
    \A i \in 1..Len(trace) :
        (IsStopEvent(trace[i]) /\ SameSession(i, Len(trace))) =>
            /\ ~isPlaying
            /\ \A j \in (i + 1)..Len(trace) : trace[j].type \notin {"beat", "click"}

-----------------------------------------------------------------------------
(* C7: setter validation.  A call of a validating setter with an argument   *)
(* outside its domain throws, leaves the settings as they were and emits    *)
(* no settingsChange; with an argument inside (bounds included) it applies  *)
(* the value and emits exactly one settingsChange.                          *)
ValidatingSetters ==
    {"setBpm", "setTimeSignature", "setVolume", "setCountInBeats",
     "setCountInVolume", "setLoopRange", "setTargetLoops"}

IsSetterCall(x) == IsCall(x) /\ x.op \in ValidatingSetters

\* The domains as the specification gives them.
InDomain(c) ==
    CASE c.op = "setBpm" -> 30 <= c.a /\ c.a <= 300
      [] c.op = "setTimeSignature" ->
            1 <= c.a /\ c.a <= 12 /\ c.b \in {1, 2, 4, 8, 16}
      [] c.op \in {"setVolume", "setCountInVolume"} -> 0 <= c.a /\ c.a <= 100
      [] c.op = "setCountInBeats" -> 1 <= c.a /\ c.a <= 8
      [] c.op = "setLoopRange" -> 1 <= c.a /\ c.a < c.b
      [] c.op = "setTargetLoops" -> 0 <= c.a

\* The settings with the call's value in the field the setter names.
WithValue(c) ==
    CASE c.op = "setBpm" -> [c.cfg EXCEPT !.bpm = c.a]
      [] c.op = "setTimeSignature" ->
            [c.cfg EXCEPT !.timeSignatureNumerator = c.a,
                          !.timeSignatureDenominator = c.b]
      [] c.op = "setVolume" -> [c.cfg EXCEPT !.volume = c.a]
      [] c.op = "setCountInVolume" -> [c.cfg EXCEPT !.countInVolume = c.a]
      [] c.op = "setCountInBeats" -> [c.cfg EXCEPT !.countInBeats = c.a]
      [] c.op = "setLoopRange" ->
            [c.cfg EXCEPT !.loopStartMeasure = c.a, !.loopEndMeasure = c.b]
      [] c.op = "setTargetLoops" -> [c.cfg EXCEPT !.targetLoops = c.a]

\* What the engine's settings are once entry i is the last thing that happened.
SettingsAfter(i) == IF i = Len(trace) THEN settings ELSE trace[i + 1].cfg

C7_SetterValidation ==
    \A i \in 1..Len(trace) : IsSetterCall(trace[i]) =>
        /\ i < Len(trace)
        /\ IF InDomain(trace[i])
           THEN /\ trace[i + 1].type = "settingsChange"
                /\ trace[i + 1].cfg = WithValue(trace[i])
                /\ SettingsAfter(i + 1) = WithValue(trace[i])
           ELSE /\ trace[i + 1].type = "throw"
                /\ SettingsAfter(i + 1) = trace[i].cfg
        /\ \A k \in (i + 2)..Len(trace) :
             NoCallBetween(i, k) => trace[k].type \notin {"settingsChange", "throw"}

\* A setter was refused and another applied a value on the edge of its domain.
C7_Witness ==
    /\ \E i \in 1..Len(trace) :
         IsSetterCall(trace[i]) /\ ~InDomain(trace[i])
    /\ \E i \in 1..Len(trace) :
         /\ IsSetterCall(trace[i]) /\ InDomain(trace[i])
         /\ trace[i].op = "setBpm" /\ trace[i].a \in {30, 300}
         /\ trace[i].cfg.bpm # trace[i].a

-----------------------------------------------------------------------------
(* C8: atomic two-field setters.  From a setLoopRange or setTimeSignature   *)
(* call on, every observation of the pair (an event's payload, or the       *)
(* settings themselves) until the next call shows the pair as it was or the *)
(* pair that was passed, never one field of each; and a pair that was       *)
(* rejected is never shown.                                                 *)
PairOf(op, cfg) ==
    IF op = "setLoopRange" THEN <<cfg.loopStartMeasure, cfg.loopEndMeasure>>
    ELSE <<cfg.timeSignatureNumerator, cfg.timeSignatureDenominator>>

\* The settings observed at or after entry i, up to the next call.
Observed(i) ==
    {trace[k].cfg : k \in {k \in (i + 1)..Len(trace) : NoCallBetween(i, k + 1)}}
      \cup (IF NoCallBetween(i, Len(trace) + 1) THEN {settings} ELSE {})

C8_AtomicPairs ==
    \A i \in 1..Len(trace) :
        (IsCall(trace[i]) /\ trace[i].op \in {"setLoopRange", "setTimeSignature"}) =>
            LET c == trace[i]
                old == PairOf(c.op, c.cfg)
                new == <<c.a, c.b>>
            IN  \A cfg \in Observed(i) :
                  /\ PairOf(c.op, cfg) \in {old, new}
                  /\ ~InDomain(c) => PairOf(c.op, cfg) = old

\* Both setters were refused with one good and one bad argument.
C8_Witness ==
    /\ \E i \in 1..Len(trace) :
         /\ IsCall(trace[i]) /\ trace[i].op = "setLoopRange"
         /\ trace[i].a >= 1 /\ trace[i].b <= trace[i].a
         /\ trace[i].a # trace[i].cfg.loopStartMeasure
    /\ \E i \in 1..Len(trace) :
         /\ IsCall(trace[i]) /\ trace[i].op = "setTimeSignature"
         /\ trace[i].a \in 1..12 /\ trace[i].b \notin {1, 2, 4, 8, 16}
         /\ trace[i].a # trace[i].cfg.timeSignatureNumerator

-----------------------------------------------------------------------------
(* C9: settings invariant.  The settings, and every payload an observer was *)
(* handed, keep every field in its domain, and the loop range is ordered,   *)
(* loopEndMeasure > loopStartMeasure >= 1, whenever the loop is enabled.    *)
WellFormed(cfg) ==
    /\ 30 <= cfg.bpm /\ cfg.bpm <= 300
    /\ 1 <= cfg.timeSignatureNumerator /\ cfg.timeSignatureNumerator <= 12
    /\ cfg.timeSignatureDenominator \in {1, 2, 4, 8, 16}
    /\ 1 <= cfg.countInBeats /\ cfg.countInBeats <= 8
    /\ cfg.targetLoops >= 0
    /\ cfg.currentLoop >= 0
    /\ cfg.loopEnabled =>
         (cfg.loopEndMeasure > cfg.loopStartMeasure /\ cfg.loopStartMeasure >= 1)

C9_SettingsInvariant ==
    /\ WellFormed(settings)
    /\ \A i \in 1..Len(trace) : WellFormed(trace[i].cfg)

\* The loop is on and has wrapped, and a setter has been refused while the
\* engine was playing.
C9_Witness ==
    /\ settings.loopEnabled /\ settings.currentLoop >= 1
    /\ \E i \in 1..Len(trace) : trace[i].type = "throw" /\ trace[i].cfg.isPlaying

-----------------------------------------------------------------------------
(* C10: unbounded loop.  loopComplete is emitted only with targetLoops > 0; *)
(* the engine stops only through stop(), called by the user, by a listener  *)
(* or on loopComplete; and with the loop enabled and targetLoops = 0 the    *)
(* last beat of loopEndMeasure is followed by loopEnd and loopStart, and    *)
(* the next beat has measure loopStartMeasure.                              *)
ListenerSubscribedBefore(i) ==
    \E k \in 1..(i - 1) : IsCall(trace[k]) /\ trace[k].op = "addEventListener"

\* The stop event at i comes from a stop() call: the user's, the one after
\* loopComplete, or a listener's during the dispatch of a beat.
StopExplained(i) ==
    /\ i > 1
    /\ \/ IsCall(trace[i - 1]) /\ trace[i - 1].op = "stop"
       \/ trace[i - 1].type = "loopComplete"
       \/ trace[i - 1].type \in {"beat", "stop"} /\ ListenerSubscribedBefore(i)

\* The first entry after i that is not a listener's stop event.
AfterDispatch(i) == Min({k \in (i + 1)..(Len(trace) + 1) :
                            k = Len(trace) + 1 \/ ~IsStopEvent(trace[k])})

UnboundedCrossing(i) ==
    /\ IsBeat(trace[i]) /\ ~trace[i].isCountIn
    /\ trace[i].cfg.loopEnabled /\ trace[i].cfg.targetLoops = 0
    /\ trace[i].measure = trace[i].cfg.loopEndMeasure
    /\ trace[i].beat = trace[i].cfg.timeSignatureNumerator

C10_UnboundedLoop ==
    /\ \A i \in 1..Len(trace) :
         trace[i].type = "loopComplete" => trace[i].cfg.targetLoops > 0
    /\ \A i \in 1..Len(trace) : IsStopEvent(trace[i]) => StopExplained(i)
    /\ \A i \in 1..Len(trace) : UnboundedCrossing(i) =>
         LET k == AfterDispatch(i)
         IN  /\ k < Len(trace)
             /\ trace[k].type = "loopEnd"
             /\ trace[k + 1].type = "loopStart"
             /\ \A j \in BeatIdx :
                  (NextBeat(i, j) /\ NoCallBetween(i, j)) =>
                     trace[j].measure = trace[i].cfg.loopStartMeasure

\* With targetLoops = 0 the loop has wrapped twice and the engine still plays.
C10_Witness ==
    /\ settings.loopEnabled /\ settings.targetLoops = 0
    /\ settings.currentLoop = 2
    /\ isPlaying
    /\ Cardinality({i \in 1..Len(trace) : UnboundedCrossing(i)}) = 2

-----------------------------------------------------------------------------
(* C11: jump correctness.  A jumpToMeasure(m) with m >= 1 made while the    *)
(* engine is playing leaves the measure at m and the beat counter at        *)
(* (m - 1) * numerator, and the next beat emitted, no other call coming in  *)
(* between, has beat index 1, is a downbeat and has measure m.              *)
AppliedJump(c) ==
    /\ IsCall(trace[c]) /\ trace[c].op = "jumpToMeasure"
    /\ trace[c].a >= 1
    /\ trace[c].cfg.isPlaying

C11_JumpCorrectness ==
    \A c \in 1..Len(trace) : AppliedJump(c) =>
        /\ c = Len(trace) =>
             /\ currentMeasure = trace[c].a
             /\ currentBeat = (trace[c].a - 1) * settings.timeSignatureNumerator
        /\ \A j \in BeatIdx : (NextBeat(c, j) /\ NoCallBetween(c, j)) =>
             /\ trace[j].beat = 1
             /\ trace[j].isDownbeat
             /\ trace[j].measure = trace[c].a

\* A jump to measure 3 in the middle of a measure of two beats, and the beat
\* after it.
C11_Witness ==
    \E c \in 1..Len(trace) :
        /\ AppliedJump(c) /\ trace[c].a = 3
        /\ trace[c].cfg.timeSignatureNumerator = 2
        /\ \E p, j \in BeatIdx :
             /\ AroundCall(p, c, j) /\ NoCallBetween(c, j)
             /\ trace[p].beat = 1

-----------------------------------------------------------------------------
(* C12: beat numbering without count-in or loop.  In a session started with *)
(* countInEnabled and loopEnabled false and left alone, the k-th beat (from *)
(* 0) has beat index (k mod n) + 1 and measure (k div n) + 1 and is a       *)
(* downbeat iff k mod n = 0; the measure never decreases and no loop event  *)
(* is emitted.                                                              *)
C12_BeatNumbering ==
    (QuietSession /\ ~settings.countInEnabled /\ ~settings.loopEnabled) =>
        LET sb == SessionBeats
            n == settings.timeSignatureNumerator
        IN  /\ \A k \in 1..Len(sb) :
                 /\ sb[k].beat = ((k - 1) % n) + 1
                 /\ sb[k].measure = ((k - 1) \div n) + 1
                 /\ sb[k].isDownbeat <=> ((k - 1) % n = 0)
                 /\ ~sb[k].isCountIn
            /\ \A k \in 1..(Len(sb) - 1) : sb[k].measure <= sb[k + 1].measure
            /\ ~SessionHas("loopStart")
            /\ ~SessionHas("loopEnd")
            /\ ~SessionHas("loopComplete")

\* Four beats of such a session in 2/4: two full measures.
C12_Witness ==
    /\ QuietSession /\ ~settings.countInEnabled /\ ~settings.loopEnabled
    /\ settings.timeSignatureNumerator = 2
    /\ Len(SessionBeats) >= 4

-----------------------------------------------------------------------------
(* Sessions: the part of the trace from one start() call to the next.       *)
StartCalls == {i \in 1..Len(trace) : IsStartCall(trace[i])}

SessionEnd(i) == Min({k - 1 : k \in {k \in StartCalls : k > i}} \cup {Len(trace)})

InSession(i) == (i + 1)..SessionEnd(i)

CountInEnds(i) == {k \in InSession(i) : trace[k].type = "countInEnd"}

-----------------------------------------------------------------------------
(* C13: transport phases.  A session counts in iff countInEnabled held at   *)
(* its start() call: countInStart is emitted iff so, and the first beat is  *)
(* a count-in beat iff so.  countInEnd is emitted at most once in a         *)
(* session and only in one that counts in, after its last count-in beat     *)
(* and before its first performance beat.  Over the whole history a         *)
(* performance beat is followed by a count-in beat only if the engine was   *)
(* idle (a stop event) in between.                                          *)
C13_TransportPhases ==
    /\ \A i \in StartCalls :
         /\ i < Len(trace)
         /\ (trace[i + 1].type = "countInStart") <=> trace[i].cfg.countInEnabled
         /\ \A j \in BeatIdx :
              NextBeat(i, j) => (trace[j].isCountIn <=> trace[i].cfg.countInEnabled)
         /\ Cardinality(CountInEnds(i)) <= 1
         /\ ~trace[i].cfg.countInEnabled => CountInEnds(i) = {}
         /\ \A k \in CountInEnds(i) :
              \A j \in BeatIdx \cap InSession(i) : (j < k) <=> trace[j].isCountIn
         /\ \A j \in BeatIdx \cap InSession(i) :
              (trace[i].cfg.countInEnabled /\ ~trace[j].isCountIn) =>
                  \E k \in CountInEnds(i) : k < j
    /\ \A i, j \in BeatIdx :
         (i < j /\ ~trace[i].isCountIn /\ trace[j].isCountIn) =>
             \E k \in i..j : IsStopEvent(trace[k])

-----------------------------------------------------------------------------
(* C14: loop boundary ordering.  loopEnd comes directly after the dispatch  *)
(* of a performance beat and is directly followed by loopStart or by        *)
(* loopComplete; after loopStart no loop event comes before the next beat,  *)
(* which has measure loopStartMeasure unless a call came in between;        *)
(* loopComplete is directly followed by the stop event, and neither a beat  *)
(* nor a loopStart follows it in that session.                              *)
LoopEvents == {"loopEnd", "loopStart", "loopComplete"}

\* The last entry before k that is not a listener's stop event, 0 if none.
BeforeDispatch(k) == Max({j \in 0..(k - 1) : j = 0 \/ ~IsStopEvent(trace[j])})

C14_LoopBoundaryOrder ==
    \A k \in 1..Len(trace) :
        /\ trace[k].type = "loopEnd" =>
             LET p == BeforeDispatch(k)
             IN  /\ p > 0 /\ IsBeat(trace[p]) /\ ~trace[p].isCountIn
                 /\ QuietSession /\ p > LastStart =>
                      /\ trace[p].measure = settings.loopEndMeasure
                      /\ trace[p].beat = settings.timeSignatureNumerator
                 /\ k < Len(trace)
                 /\ trace[k + 1].type \in {"loopStart", "loopComplete"}
        /\ trace[k].type = "loopStart" =>
             /\ k > 1 /\ trace[k - 1].type = "loopEnd"
             /\ \A j \in BeatIdx : NextBeat(k, j) =>
                  /\ \A x \in (k + 1)..(j - 1) : trace[x].type \notin LoopEvents
                  /\ NoCallBetween(k, j) =>
                       trace[j].measure = trace[k].cfg.loopStartMeasure
        /\ trace[k].type = "loopComplete" =>
             /\ k > 1 /\ trace[k - 1].type = "loopEnd"
             /\ k < Len(trace) /\ IsStopEvent(trace[k + 1])
             /\ \A j \in (k + 1)..Len(trace) :
                  SameSession(k, j) => trace[j].type \notin {"beat", "loopStart"}

\* A wrap with the beat after it, and later the completion with its stop
\* event.
C14_Witness ==
    /\ \E k \in 1..Len(trace) :
         /\ trace[k].type = "loopStart"
         /\ \E j \in BeatIdx : NextBeat(k, j) /\ NoCallBetween(k, j)
    /\ \E k \in 1..(Len(trace) - 1) :
         trace[k].type = "loopComplete" /\ IsStopEvent(trace[k + 1])

-----------------------------------------------------------------------------
(* C18: a rejected jump.  A step that makes a jumpToMeasure(m) call with    *)
(* m < 1 logs the call and the error it throws and nothing else, and        *)
(* leaves the measure, the beat counter, the settings, the playing state    *)
(* and the rest of the engine as they were.                                 *)
RejectedJumpStep ==
    /\ Len(trace') > Len(trace)
    /\ IsCall(trace'[Len(trace) + 1])
    /\ trace'[Len(trace) + 1].op = "jumpToMeasure"
    /\ trace'[Len(trace) + 1].a < 1

C18_JumpRejected ==
    [][RejectedJumpStep =>
          /\ Len(trace') = Len(trace) + 2
          /\ SubSeq(trace', 1, Len(trace)) = trace
          /\ trace'[Len(trace) + 2].type = "throw"
          /\ UNCHANGED <<currentMeasure, currentBeat, settings, isPlaying,
                         nextBeatTime, timerId, isCountingIn,
                         countInBeatsRemaining, pendingTimers, listeners>>]_vars

\* jumpToMeasure(0) was just refused in the middle of a session.
C18_Witness ==
    /\ Len(trace) >= 2
    /\ IsCall(trace[Len(trace) - 1])
    /\ trace[Len(trace) - 1].op = "jumpToMeasure"
    /\ trace[Len(trace) - 1].a < 1
    /\ trace[Len(trace)].type = "throw"
    /\ isPlaying /\ currentBeat > 0 /\ currentMeasure > 1

-----------------------------------------------------------------------------
(* C19: beat index bounds.  Every beat event has its beat index between 1   *)
(* and the numerator in force when it was emitted, a measure of at least 1, *)
(* and is a downbeat iff its beat index is 1.                               *)
C19_BeatIndexBounds ==
    \A i \in BeatIdx :
        /\ 1 <= trace[i].beat
        /\ trace[i].beat <= trace[i].cfg.timeSignatureNumerator
        /\ trace[i].measure >= 1
        /\ trace[i].isDownbeat <=> (trace[i].beat = 1)

\* The numerator was changed during playback and the beat after the change
\* falls inside a measure.
C19_Witness ==
    \E c \in 1..Len(trace) :
        /\ IsCall(trace[c]) /\ trace[c].op = "setTimeSignature"
        /\ trace[c].cfg.isPlaying
        /\ trace[c].a # trace[c].cfg.timeSignatureNumerator
        /\ \E p, j \in BeatIdx :
             /\ AroundCall(p, c, j)
             /\ trace[j].cfg.timeSignatureNumerator = trace[c].a
             /\ trace[j].beat > 1

-----------------------------------------------------------------------------
(* C20, as stated: start() resets.  The first beat of every session has    *)
(* beat index 1 and is a downbeat, and from the start() call on everything  *)
(* the session shows carries currentLoop = 0, until the session's first     *)
(* loopEnd.                                                                 *)
BeforeFirstWrap(i, k) == \A x \in (i + 1)..k : trace[x].type # "loopEnd"

C20_StartResetsFromCall ==
    \A i \in StartCalls :
        /\ \A j \in BeatIdx : NextBeat(i, j) =>
             /\ j \in InSession(i)
             /\ trace[j].beat = 1
             /\ trace[j].isDownbeat
             /\ trace[j].cfg.currentLoop = 0
        /\ \A k \in InSession(i) :
             BeforeFirstWrap(i, k) =>
                 /\ trace[k].cfg.currentLoop = 0
                 /\ k = Len(trace) => settings.currentLoop = 0

(* C20, amended: start() resets.  The first beat of every session has beat  *)
(* index 1 and is a downbeat, and from the reset in start() on (everything  *)
(* the session shows after its countInStart, which is emitted before the    *)
(* reset) the settings carry currentLoop = 0 until the session's first      *)
(* loopEnd.                                                                 *)
C20_StartResets ==
    \A i \in StartCalls :
        /\ \A j \in BeatIdx : NextBeat(i, j) =>
             /\ j \in InSession(i)
             /\ trace[j].beat = 1
             /\ trace[j].isDownbeat
             /\ trace[j].cfg.currentLoop = 0
        /\ \A k \in InSession(i) :
             (trace[k].type # "countInStart" /\ BeforeFirstWrap(i, k)) =>
                 /\ trace[k].cfg.currentLoop = 0
                 /\ k = Len(trace) => settings.currentLoop = 0

\* A session started with a count-in after the previous one had wrapped: its
\* countInStart shows the loops of the previous session, its first beat
\* shows none.
C20_Witness ==
    \E i \in StartCalls :
        /\ trace[i].cfg.currentLoop >= 1
        /\ trace[i + 1].type = "countInStart"
        /\ trace[i + 1].cfg.currentLoop >= 1
        /\ \E j \in BeatIdx : NextBeat(i, j) /\ trace[j].cfg.currentLoop = 0

-----------------------------------------------------------------------------
(* C17: event dispatch.  The dispatch of a beat event is the run of         *)
(* handler invocations (and of the stop events of handlers that stop the    *)
(* engine) that follows it in the trace.  As claimed, the recording         *)
(* handlers invoked in it are exactly those subscribed when the emit began, *)
(* each once, in subscription order, whatever the handlers do to the list   *)
(* while the dispatch runs.                                                 *)
DispatchEnd(i) ==
    Max({k \in i..Len(trace) :
            \A x \in (i + 1)..k : trace[x].type \in {"invoke", "stop"}})

IsInvoke(x) == x.type = "invoke"

IsRecording(h) == h # StopHandler

\* The handlers that recorded an invocation during the dispatch of event i.
Invoked(i) ==
    LET run == SelectSeq(SubSeq(trace, i + 1, DispatchEnd(i)), IsInvoke)
    IN  [k \in 1..Len(run) |-> run[k].a]

C17_EventDispatch ==
    \A i \in BeatIdx : Invoked(i) = SelectSeq(trace[i].subs, IsRecording)

-----------------------------------------------------------------------------
(* C15: start() failure.  Every step leaves the engine, as long as no       *)
(* start() has succeeded, not playing, with no timer pending and with       *)
(* nothing seen but calls, errors and the stop events of stop() calls.  A   *)
(* step in which a start()                                                  *)
(* rejects, and a step in which start() is called and has to wait for the   *)
(* audio context, shows the observer that call or that error and nothing    *)
(* else, and leaves the playing state, the settings, the counters and the   *)
(* timers as they were.  A start() called once the context is acquired      *)
(* succeeds within the call, whatever failed before.                        *)
ContextReady ==
    /\ isInitialized
    /\ audioContext > 0
    /\ contexts[audioContext] = "running"

Transport ==
    <<isPlaying, settings, nextBeatTime, currentBeat, currentMeasure, timerId,
      isCountingIn, countInBeatsRemaining, pendingTimers, listeners>>

NeverStarted == \A i \in 1..Len(trace) : trace[i].type # "start"

StartCallStep ==
    /\ Len(trace') > Len(trace)
    /\ IsStartCall(trace'[Len(trace) + 1])

IsStartRejection(x) == x.type = "throw" /\ x.op = "start"

StartRejectedStep ==
    /\ Len(trace') > Len(trace)
    /\ IsStartRejection(trace'[Len(trace')])

\* The step showed the observer calls and errors only.
OnlyCallsAndErrors ==
    /\ SubSeq(trace', 1, Len(trace)) = trace
    /\ \A i \in (Len(trace) + 1)..Len(trace') : trace'[i].type \in {"call", "throw"}

\* The engine is idle and has shown no sign of playing.
Untouched ==
    /\ ~isPlaying /\ ~settings.isPlaying
    /\ pendingTimers = 0
    /\ \A i \in 1..Len(trace) : trace[i].type \in {"call", "throw", "stop"}

C15_StartFailure ==
    [][/\ NeverStarted' => Untouched'
       /\ StartRejectedStep => (OnlyCallsAndErrors /\ UNCHANGED Transport)
       /\ (StartCallStep /\ ~ContextReady) =>
             (OnlyCallsAndErrors /\ UNCHANGED Transport)
       /\ (StartCallStep /\ ContextReady) =>
             (isPlaying' /\ trace'[Len(trace')].type = "start")]_vars

\* A start() was rejected, and a later one succeeded and plays.
C15_Witness ==
    /\ isPlaying
    /\ \E i, j \in 1..Len(trace) :
         /\ i < j
         /\ IsStartRejection(trace[i])
         /\ IsStartCall(trace[j])
         /\ \E k \in BeatIdx : k > j

-----------------------------------------------------------------------------
(* C16: snapshot isolation of reads.  A value getSettings() returned holds  *)
(* what the settings were when it was returned, whatever the engine did     *)
(* since; once the host has written into it, it holds that with the host's  *)
(* write, and the engine's settings do not show the write.                  *)
C16_SnapshotIsolation ==
    /\ \A h \in 1..Len(held) :
         IF held[h].edited
         THEN Content(h) = [held[h].orig EXCEPT !.bpm = 0]
         ELSE Content(h) = held[h].orig
    /\ settings.bpm # 0
    /\ \A i \in 1..Len(trace) : trace[i].cfg.bpm # 0

\* A value read while the engine was idle is still held, untouched, after
\* the engine was started, retuned and has wrapped or counted beats; another
\* value was written into by the host.
C16_Witness ==
    /\ \E h \in 1..Len(held) :
         /\ ~held[h].edited
         /\ ~held[h].orig.isPlaying /\ settings.isPlaying
         /\ held[h].orig.bpm # settings.bpm
    /\ \E h \in 1..Len(held) : held[h].edited /\ held[h].orig.isPlaying

-----------------------------------------------------------------------------
(* C21: single scheduling loop.  Whatever start() and stop() calls are made, *)
(* at most one re-arm timer is pending, and none is pending while the       *)
(* engine is not playing.                                                   *)
C21_SingleTimer ==
    /\ pendingTimers <= 1
    /\ ~isPlaying => pendingTimers = 0

-----------------------------------------------------------------------------
(* C22: start/stop race.  A stop() call that is made while a start() call   *)
(* is suspended, and that is the last call the user made, leaves the engine *)
(* not playing with no timer armed once every start() has run to its end.   *)
IsStopCall(x) == IsCall(x) /\ x.op = "stop"

\* The last call the user made, 0 if none.
LastCall == Max({0} \cup {i \in 1..Len(trace) : IsCall(trace[i])})

\* Some start() call is suspended at an await.
StartPending == \E k \in 1..Len(tasks) : tasks[k].starter

\* The start() calls before entry j that have run to their end: they emitted
\* the start event or rejected.
Settled(j) ==
    {i \in 1..(j - 1) : trace[i].type = "start" \/ IsStartRejection(trace[i])}

\* The stop() call at j was made while a start() call was suspended.
RacedStop(j) ==
    /\ IsStopCall(trace[j])
    /\ Cardinality({i \in StartCalls : i < j}) > Cardinality(Settled(j))

C22_StopWins ==
    \A j \in 1..Len(trace) :
        (RacedStop(j) /\ j = LastCall /\ ~StartPending) =>
            (~isPlaying /\ pendingTimers = 0)

-----------------------------------------------------------------------------
(* C23: lookahead window.  A step in which beats are emitted is a           *)
(* scheduling pass; it reads the clock, which stands still during the step. *)
(* Every beat it emits has scheduledTime < now + 25 ms.  The beats it emits *)
(* are the due ones, each once and none skipped: the first is the beat that *)
(* was next (the one at now, if the pass is that of start()), each further  *)
(* one is 60 / bpm after the one before it, and the beat that is next after *)
(* the pass is 60 / bpm after the last one emitted.  If the engine still    *)
(* plays when the pass ends, that next beat is at now + 25 ms or later.     *)
NewBeats == SelectSeq(SubSeq(trace', Len(trace) + 1, Len(trace')), IsBeat)

\* The step ran start() to its end.
StartedStep == Len(trace') > Len(trace) /\ trace'[Len(trace')].type = "start"

C23_LookaheadWindow ==
    [][LET nb == NewBeats
           now == currentTime
       IN  Len(nb) > 0 =>
             /\ currentTime' = now
             /\ \A k \in 1..Len(nb) : nb[k].timestamp < now + Lookahead
             /\ nb[1].timestamp = IF StartedStep THEN now ELSE nextBeatTime
             /\ \A k \in 1..(Len(nb) - 1) :
                  (nb[k + 1].timestamp - nb[k].timestamp) * nb[k].cfg.bpm = MsPerMinute
             /\ (nextBeatTime' - nb[Len(nb)].timestamp) * nb[Len(nb)].cfg.bpm
                  = MsPerMinute
             /\ isPlaying' => nextBeatTime' >= now + Lookahead]_vars

\* A pass ran late and emitted two beats: the second follows, with no call
\* in between, the stop event of a listener that stopped the engine during
\* the dispatch of the first, so that no later pass can have emitted it.
C23_Witness ==
    \E i, j \in BeatIdx :
        /\ NextBeat(i, j) /\ NoCallBetween(i, j)
        /\ \E k \in (i + 1)..(j - 1) : IsStopEvent(trace[k])
        /\ trace[j].timestamp > trace[i].timestamp
        /\ trace[j].timestamp <= currentTime

-----------------------------------------------------------------------------
(* C24: self-termination on target.  Started with the loop enabled and a    *)
(* target of N > 0 loops and left to itself, the engine, its timer firing   *)
(* and the clock advancing, comes to stop by itself and stays so: not       *)
(* playing, no timer pending, currentLoop = N, having emitted N loopEnd     *)
(* events, N - 1 loopStart events, one loopComplete and one stop event.     *)
Targeted ==
    /\ LastStart > 0
    /\ trace[LastStart].cfg.loopEnabled
    /\ trace[LastStart].cfg.targetLoops > 0

CountOf(type) == Cardinality({i \in 1..Len(trace) : trace[i].type = type})

SelfStopped ==
    /\ ~isPlaying /\ ~settings.isPlaying
    /\ pendingTimers = 0 /\ timerId = "null"
    /\ settings.currentLoop = settings.targetLoops
    /\ CountOf("loopEnd") = settings.targetLoops
    /\ CountOf("loopStart") = settings.targetLoops - 1
    /\ CountOf("loopComplete") = 1
    /\ CountOf("stop") = 1

C24_SelfTermination == Targeted ~> []SelfStopped

\* A session with a count-in and a target of two loops has stopped by itself
\* before the clock reached the horizon.
C24_Witness ==
    /\ Targeted /\ SelfStopped
    /\ settings.targetLoops = 2
    /\ settings.countInEnabled
    /\ currentTime < LiveHorizon

-----------------------------------------------------------------------------
(* C25: liveness of the re-arm loop.  Started without a loop target and     *)
(* left to itself, the engine plays with exactly one timer pending after    *)
(* every pass, and, its timer firing and the clock advancing, every beat    *)
(* that falls due is emitted as long as the clock runs: at the horizon of   *)
(* the clock the session has emitted every beat from its start to there.    *)
Untargeted == LastStart > 0 /\ ~Targeted

\* The beats due from the start of the session, at clock 0, to the horizon.
DueByHorizon == ((LiveHorizon + Lookahead - 1) \div BeatInterval(settings.bpm)) + 1

CaughtUp ==
    /\ currentTime = LiveHorizon
    /\ nextBeatTime >= LiveHorizon + Lookahead
    /\ Len(SessionBeats) = DueByHorizon

C25_RearmLiveness ==
    /\ [](Untargeted => (isPlaying /\ pendingTimers = 1 /\ timerId = "live"))
    /\ Untargeted ~> CaughtUp

\* The clock is at the horizon and the engine, started at 0 at the fastest
\* tempo with the loop on and no target, has emitted every beat up to there
\* and still plays.
C25_Witness ==
    /\ Untargeted /\ CaughtUp /\ isPlaying
    /\ settings.loopEnabled /\ settings.bpm = MaxBpm
    /\ Len(SessionBeats) = MaxLiveTicks + 1

-----------------------------------------------------------------------------
(* C26: loop start after count-in.  In a session started with the loop      *)
(* enabled, as long as no jumpToMeasure or setLoopRange call is made, the   *)
(* first performance beat has measure loopStartMeasure, with and without a  *)
(* count-in, and every performance beat has its measure between             *)
(* loopStartMeasure and loopEndMeasure.                                     *)
PerformanceBeats(i) == {j \in BeatIdx \cap InSession(i) : ~trace[j].isCountIn}

NoRangeCall(i, j) ==
    \A x \in (i + 1)..(j - 1) :
        ~(IsCall(trace[x]) /\ trace[x].op \in {"jumpToMeasure", "setLoopRange"})

C26_LoopStartAfterCountIn ==
    \A i \in StartCalls : trace[i].cfg.loopEnabled =>
        \A j \in PerformanceBeats(i) : NoRangeCall(i, j) =>
            /\ (\A k \in PerformanceBeats(i) : j <= k) =>
                  trace[j].measure = trace[i].cfg.loopStartMeasure
            /\ trace[i].cfg.loopStartMeasure <= trace[j].measure
            /\ trace[j].measure <= trace[i].cfg.loopEndMeasure

-----------------------------------------------------------------------------
(* C27: setters do not disturb the transport.  A step in which a setter is  *)
(* called and applies its value shows the observer the call and one         *)
(* settingsChange, leaves the settings as they were but for the field(s)    *)
(* the setter names, which hold the value(s) passed, and leaves isPlaying,  *)
(* the phase, the beat and measure counters, the remaining count-in beats,  *)
(* the next beat time and the timers as they were (currentLoop and          *)
(* settings.isPlaying are among the fields that stay).                      *)
SetterOps == ValidatingSetters \cup {"setCountInEnabled", "setLoopEnabled"}

\* The settings at the call c with the value(s) passed in the field(s) the
\* setter names.
Written(c) ==
    CASE c.op = "setCountInEnabled" -> [c.cfg EXCEPT !.countInEnabled = (c.a = 1)]
      [] c.op = "setLoopEnabled" -> [c.cfg EXCEPT !.loopEnabled = (c.a = 1)]
      [] OTHER -> WithValue(c)

AppliedSetterStep ==
    /\ Len(trace') >= Len(trace) + 2
    /\ IsCall(trace'[Len(trace) + 1])
    /\ trace'[Len(trace) + 1].op \in SetterOps
    /\ trace'[Len(trace) + 2].type = "settingsChange"

C27_SetterFrame ==
    [][AppliedSetterStep =>
          /\ Len(trace') = Len(trace) + 2
          /\ SubSeq(trace', 1, Len(trace)) = trace
          /\ trace'[Len(trace) + 1].cfg = settings
          /\ settings' = Written(trace'[Len(trace) + 1])
          /\ UNCHANGED <<isPlaying, isCountingIn, currentBeat, currentMeasure,
                         countInBeatsRemaining, nextBeatTime, pendingTimers,
                         timerId, listeners>>]_vars

\* setCountInBeats has just changed the length of the count-in in the middle
\* of a count-in, with a timer pending.
C27_Witness ==
    /\ Len(trace) >= 2
    /\ IsCall(trace[Len(trace) - 1])
    /\ trace[Len(trace) - 1].op = "setCountInBeats"
    /\ trace[Len(trace) - 1].a # trace[Len(trace) - 1].cfg.countInBeats
    /\ trace[Len(trace)].type = "settingsChange"
    /\ isPlaying /\ isCountingIn /\ countInBeatsRemaining >= 1
    /\ pendingTimers = 1

-----------------------------------------------------------------------------
(* C28: settings payloads are snapshots.  The settings an observer was      *)
(* handed as the data of a settingsChange, start, stop, countInStart,       *)
(* loopEnd, loopStart or loopComplete event read, whenever the observer     *)
(* looks at them again, as they read when the event was delivered.          *)
SettingsEvents ==
    {"settingsChange", "start", "stop", "countInStart", "loopEnd", "loopStart",
     "loopComplete"}

\* What the data of event i reads as now.
PayloadNow(i) == IF trace[i].ref THEN settings ELSE trace[i].cfg

C28_PayloadSnapshots ==
    \A i \in 1..Len(trace) :
        trace[i].type \in SettingsEvents => PayloadNow(i) = trace[i].cfg

-----------------------------------------------------------------------------
(* C29: session event order.  In every session the start event comes before *)
(* every beat event of the session and after the countInStart event, if     *)
(* there is one, and a stop event comes after every beat of the session.    *)
SessionEvents(i, type) == {k \in InSession(i) : trace[k].type = type}

C29_SessionEventOrder ==
    \A i \in StartCalls :
        /\ \A s \in SessionEvents(i, "start") :
             /\ \A j \in SessionEvents(i, "beat") : s < j
             /\ \A c \in SessionEvents(i, "countInStart") : c < s
        /\ \A k \in SessionEvents(i, "stop") :
             \A j \in SessionEvents(i, "beat") : j < k

-----------------------------------------------------------------------------
(* C30: the count-in length is fixed at start().  A session started with    *)
(* countInEnabled and countInBeats = n has at most n count-in beats; while  *)
(* it counts in, the beats counted and the beats remaining add up to n;     *)
(* once countInEnd is emitted or a performance beat is, there are exactly   *)
(* n, all before it, whatever setCountInBeats and setCountInEnabled calls   *)
(* were made meanwhile.  A session started without countInEnabled has no    *)
(* count-in beat.                                                           *)
CountInBeats(i) == {j \in BeatIdx \cap InSession(i) : trace[j].isCountIn}

C30_CountInLength ==
    \A i \in StartCalls :
        IF trace[i].cfg.countInEnabled
        THEN LET n == trace[i].cfg.countInBeats
                 counted == Cardinality(CountInBeats(i))
             IN  /\ counted <= n
                 /\ (i = LastStart /\ isCountingIn) =>
                      counted + countInBeatsRemaining = n
                 /\ \A k \in CountInEnds(i) \cup PerformanceBeats(i) :
                      /\ counted = n
                      /\ \A j \in CountInBeats(i) : j < k
        ELSE CountInBeats(i) = {}

\* In the middle of a count-in of two beats, after its first beat,
\* setCountInBeats applied another length, and the count-in ran to its end.
C30_Witness ==
    /\ \E i \in StartCalls : \E c \in InSession(i) :
         /\ IsCall(trace[c]) /\ trace[c].op = "setCountInBeats"
         /\ trace[i].cfg.countInBeats = 2
         /\ trace[c].a \in {1, 3}
         /\ trace[c + 1].type = "settingsChange"
         /\ \E j \in CountInBeats(i) : j < c
         /\ \E k \in CountInEnds(i) : c < k

-----------------------------------------------------------------------------
(* C31: the measure changes only on downbeats.  Of two consecutive          *)
(* performance beats of a session with no jumpToMeasure call between them,  *)
(* the later has another measure than the earlier only if it is a downbeat  *)
(* (beat index 1).  A measure played to its end, with the numerator n       *)
(* unchanged and no jumpToMeasure call, has exactly n beats.                *)
NoJumpBetween(i, j) ==
    \A x \in (i + 1)..(j - 1) : ~(IsCall(trace[x]) /\ trace[x].op = "jumpToMeasure")

\* i and j are consecutive performance beats of the session begun at s.
ConsecutiveIn(s, i, j) ==
    /\ i \in PerformanceBeats(s) /\ j \in PerformanceBeats(s)
    /\ NextBeat(i, j)

\* The beats of the measure that the beat j of the session begun at s
\* closes: the performance beats up to j with nothing but beats of the
\* measure of j from them to j.
MeasureOf(s, j) ==
    {p \in PerformanceBeats(s) :
        /\ p <= j
        /\ \A q \in PerformanceBeats(s) :
             (p <= q /\ q <= j) => trace[q].measure = trace[j].measure}

C31_MeasureOnDownbeat ==
    \A s \in StartCalls : \A i, j \in PerformanceBeats(s) :
        (ConsecutiveIn(s, i, j) /\ trace[j].measure # trace[i].measure) =>
            /\ NoJumpBetween(i, j) => trace[j].beat = 1
            /\ LET played == MeasureOf(s, i)
                    first == Min(played)
                    n == trace[i].cfg.timeSignatureNumerator
               IN  (/\ NoJumpBetween(first, j)
                    /\ \A p \in played : trace[p].cfg.timeSignatureNumerator = n) =>
                       Cardinality(played) = n

-----------------------------------------------------------------------------
(* C32: sound and beat come in pairs.  Every beat event has, directly       *)
(* before it, one click started at the beat's scheduledTime, with the       *)
(* beat's isCountIn and isDownbeat, at countInVolume if isCountIn and at    *)
(* volume otherwise, at 660/330 Hz (downbeat/other) if isCountIn and at     *)
(* 880/440 Hz otherwise; and every click has its beat event directly after  *)
(* it, so that no beat has two clicks and no click is without a beat.       *)
IsClick(x) == x.type = "click"

ClickFrequency(isDownbeat, isCountIn) ==
    IF isCountIn THEN (IF isDownbeat THEN 660 ELSE 330)
    ELSE (IF isDownbeat THEN 880 ELSE 440)

ClickOf(j) ==
    /\ j > 1
    /\ IsClick(trace[j - 1])
    /\ trace[j - 1].timestamp = trace[j].timestamp
    /\ trace[j - 1].isCountIn = trace[j].isCountIn
    /\ trace[j - 1].isDownbeat = trace[j].isDownbeat
    /\ trace[j - 1].a = IF trace[j].isCountIn THEN trace[j].cfg.countInVolume
                        ELSE trace[j].cfg.volume
    /\ trace[j - 1].b = ClickFrequency(trace[j].isDownbeat, trace[j].isCountIn)

C32_SoundBeatPairing ==
    \A j \in 1..Len(trace) :
        /\ IsBeat(trace[j]) => ClickOf(j)
        /\ IsClick(trace[j]) => (j < Len(trace) /\ IsBeat(trace[j + 1]))

\* A session has played a count-in downbeat at a countInVolume other than
\* the volume, and later a performance beat that is no downbeat, at a
\* scheduledTime after 0.
C32_Witness ==
    \E i, j \in 1..Len(trace) :
        /\ i < j /\ SameSession(i, j)
        /\ IsBeat(trace[i]) /\ trace[i].isCountIn /\ trace[i].isDownbeat
        /\ trace[i].cfg.countInVolume # trace[i].cfg.volume
        /\ trace[i - 1].b = 660
        /\ IsBeat(trace[j]) /\ ~trace[j].isCountIn /\ ~trace[j].isDownbeat
        /\ trace[j].timestamp > 0
        /\ trace[j - 1].b = 440

-----------------------------------------------------------------------------
(* C33: stop events mark transitions only.  Every stop event is emitted by  *)
(* an engine that was playing just before it, so a stop() call on an idle   *)
(* engine emits none; and start and stop events alternate: between two      *)
(* start events there is a stop event, between two stop events a start      *)
(* event.                                                                   *)
IsStartEvent(x) == x.type = "start"

\* The engine was playing when it came to emit the entry i: the entry
\* before it, logged with the settings of that moment, says so.
PlayingBefore(i) == i > 1 /\ trace[i - 1].cfg.isPlaying

EventBetween(i, j, type) == \E k \in (i + 1)..(j - 1) : trace[k].type = type

C33_StopMarksTransition ==
    \A i \in 1..Len(trace) :
        /\ IsStopEvent(trace[i]) => PlayingBefore(i)
        /\ \A j \in (i + 1)..Len(trace) :
             /\ (IsStopEvent(trace[i]) /\ IsStopEvent(trace[j])) =>
                    EventBetween(i, j, "start")
             /\ (IsStartEvent(trace[i]) /\ IsStartEvent(trace[j])) =>
                    EventBetween(i, j, "stop")

-----------------------------------------------------------------------------
(* C34: the isPlaying of the settings mirrors the engine's flag.  Between   *)
(* calls getSettings().isPlaying equals isRunning(); and at every call, at  *)
(* every event a handler receives and at every handler that runs, the       *)
(* isPlaying of the settings equals what isRunning() returns then: across   *)
(* start(), stop(), the stop at the loop target and destroy().              *)
C34_PlayingMirror ==
    /\ getSettings(Eng).val.isPlaying = isRunning(Eng)
    /\ \A i \in 1..Len(trace) : trace[i].cfg.isPlaying = trace[i].running

IsDestroyCall(x) == IsCall(x) /\ x.op = "destroy"

\* An engine that ran has stopped itself at its loop target and was then
\* destroyed: the trace holds a start event seen by a running engine, the
\* stop event after loopComplete and the stop event of destroy().
C34_Witness ==
    /\ ~isInitialized /\ audioContext = 0
    /\ \E i, j, k \in 1..Len(trace) :
         /\ trace[i].type = "loopComplete" /\ trace[i].running
         /\ IsStopEvent(trace[i + 1]) /\ ~trace[i + 1].running
         /\ IsStartEvent(trace[j]) /\ trace[j].running
         /\ i < k /\ IsDestroyCall(trace[k]) /\ IsStopEvent(trace[k + 1])

====
